---- MODULE Spec2Model ----
(***************************************************************************)
(* Model of the AnonVoteFHE contract (contracts/index.sol): the poll       *)
(* ledger with createVote, castVote, revealVoteResults and endVoteEarly.   *)
(* Every external call is one atomic action (a transaction); a call that   *)
(* reverts changes no contract storage, emits no event and returns nothing.*)
(***************************************************************************)
EXTENDS Integers, Sequences, FiniteSets, TLC

\* ------------------------------------------------------------------------
\* Bounds of the model
\* ------------------------------------------------------------------------
MaxPolls == 2
MaxSteps == 4
MaxCalls == 2

\* ------------------------------------------------------------------------
\* Program constants and the environment's input sets
\* ------------------------------------------------------------------------
MAX_OPTIONS == 10

ZeroAddress == "0x0"

Addr == {"deployer", "alice", "bob"}

\* The callers of createVote: the deployer of the contract and "alice";
\* "bob" stays the caller that never created anything.
Creators == {"deployer", "alice"}

VoteIds == 0..MaxPolls

Titles == {"", "Poll"}

Descriptions == {"about"}

Labels == <<"A", "B", "C", "D", "E", "F", "G", "H", "I", "J", "K">>

OptionList(n) == [i \in 1..n |-> Labels[i]]

OptionInputs == {OptionList(n) : n \in {0, 1, MAX_OPTIONS, MAX_OPTIONS + 1}}

\* Payloads: a well-formed index 1 (out of range on a one-option poll) and a
\* malformed three-byte payload.
Payloads == {<<0, 1>>, <<0, 1, 0>>}

CountInputs == {<<7>>, <<3, 5>>, [i \in 1..MAX_OPTIONS |-> i]}

NoRet == 0 - 1

VARIABLES
    now,                  \* block.timestamp
    nextVoteId,           \* uint256 public nextVoteId
    votes,                \* mapping(uint256 => Vote) public votes
    voteRevealRequested,  \* mapping(uint256 => bool) private voteRevealRequested
    events,               \* the events emitted by the last call
    emitted,              \* the event log: how many events of each kind so far
    returned,             \* the value returned by the last call
    steps,                \* transactions mined, clock ticks and page events so far
    owner                 \* Ownable's _owner, the value owner() returns

\* The front end's FHE module (utils/fhe.ts) and the calls of initializeFHE.
VARIABLES
    fheInstance,          \* let fheInstance: the module's global instance
    sdkInstances,         \* how many instances createInstance has returned
    calls,                \* the calls of initializeFHE made since the page
                          \* loaded, in call order: who called, where the
                          \* call stands, the instance it returned, whether
                          \* it created one, whether resetFheInstance has run
                          \* since, whether the signal of the refresh that
                          \* made it is aborted, whether the component that
                          \* made it has unmounted
    microtasks            \* the calls whose promise has settled and whose
                          \* caller has not resumed yet, in settling order

ledgerVars == <<now, nextVoteId, votes, voteRevealRequested, events, emitted,
                returned, steps, owner>>

\* The wallet and the browser's storage, which outlive a page load.
VARIABLES
    provider,             \* window.ethereum is present
    txCount,              \* the transactions the wallet has broadcast
    mempool,              \* the broadcast transactions that are not mined yet
    walletConnected       \* localStorage holds walletConnected = 'true'

\* The state of Web3Provider (contexts/Web3Context), which useWeb3 returns.
VARIABLES
    account,              \* useState account
    contract,             \* useState contract
    browserProvider,      \* useState provider is not null
    connecting,           \* useState connecting
    connects,             \* the autoConnect and connectWallet calls that
                          \* have not finished: the await each is at, and
                          \* whether autoConnect made it
    signers,              \* the provider.getSigner() calls of
                          \* handleAccountsChanged that have not settled
    reloading             \* window.location.reload() has been called

\* The voting page (pages/VoteDetail) with its useFHE hook.
VARIABLES
    mounted,              \* the route shows VoteDetail
    isInitialized,        \* useFHE's state isInitialized (the page's fheInitialized)
    hook,                 \* useFHE's other state: fhe, error, isLoading
    view,                 \* the state of VoteDetail: the poll of the route,
                          \* loading, voteData, hasVoted, selectedOption, and
                          \* isActive as the last render computed it
    loads,                \* the loadVoteData runs of the mounted page that
                          \* have not finished
    hv,                   \* the handleVote or handleEndVote call of the
                          \* mounted page (submitting is true while one
                          \* runs): where it stands, its captured values,
                          \* its transaction and the last toast shown
    detached              \* the calls of these handlers still running that
                          \* were started by a page that has unmounted since

fheVars == <<fheInstance, sdkInstances, calls, microtasks>>

walletVars == <<provider, txCount, mempool, walletConnected>>

web3Vars == <<account, contract, browserProvider, connecting, connects,
              signers, reloading>>

pageVars == <<mounted, isInitialized, hook, view, loads, hv, detached>>

browserVars == <<fheInstance, sdkInstances, calls, microtasks, provider,
                 txCount, mempool, walletConnected, account, contract,
                 browserProvider, connecting, connects, signers, reloading,
                 mounted, isInitialized, hook, view, loads, hv, detached>>

vars == <<now, nextVoteId, votes, voteRevealRequested, events, emitted,
          returned, steps, owner, fheInstance, sdkInstances, calls,
          microtasks, provider, txCount, mempool, walletConnected, account,
          contract, browserProvider, connecting, connects, signers,
          reloading, mounted, isInitialized, hook, view, loads, hv,
          detached>>

storage == <<owner, nextVoteId, votes, voteRevealRequested>>

DeadlineInputs == {now, now + 1}

\* ------------------------------------------------------------------------
\* Storage layout
\* ------------------------------------------------------------------------
\* A storage slot of mapping `votes` that was never written: all zero.
EmptyVote ==
    [title |-> "", description |-> "", options |-> << >>, deadline |-> 0,
     totalVoters |-> 0, isActive |-> FALSE, isRevealed |-> FALSE,
     creator |-> ZeroAddress,
     hasVoted |-> [a \in Addr |-> FALSE],
     encryptedVotes |-> [a \in Addr |-> << >>],
     revealedCounts |-> << >>]

RECURSIVE SumSeq(_)
SumSeq(s) == IF s = << >> THEN 0 ELSE Head(s) + SumSeq(Tail(s))

Zeros(n) == [i \in 1..n |-> 0]

\* ------------------------------------------------------------------------
\* Events
\* ------------------------------------------------------------------------
VoteCreated(voteId, creator, title, deadline) ==
    [name |-> "VoteCreated", voteId |-> voteId, creator |-> creator,
     title |-> title, deadline |-> deadline]

VoteCast(voteId, voter, choiceIndex, choiceName) ==
    [name |-> "VoteCast", voteId |-> voteId, voter |-> voter,
     choiceIndex |-> choiceIndex, choiceName |-> choiceName]

VoteRevealed(voteId, counts) ==
    [name |-> "VoteRevealed", voteId |-> voteId, counts |-> counts]

EmptyLog ==
    [VoteCreated |-> [i \in VoteIds |-> 0],
     VoteCast |-> [i \in VoteIds |-> [a \in Addr |-> 0]],
     VoteRevealed |-> [i \in VoteIds |-> 0]]

\* A call that reverts: storage is rolled back, nothing is emitted or returned.
Reverted ==
    /\ events' = << >>
    /\ returned' = NoRet
    /\ UNCHANGED <<owner, now, nextVoteId, votes, voteRevealRequested, emitted,
                   steps>>

\* ------------------------------------------------------------------------
\* createVote
\* ------------------------------------------------------------------------
\* createVoteError accepting a deadline equal to the current time.
createVoteError_DeadlineNow(title, options, deadline) ==
    IF Len(title) = 0 THEN "EmptyTitle"
    ELSE IF Len(options) = 0 THEN "NoOptions"
    ELSE IF Len(options) > MAX_OPTIONS THEN "TooManyOptions"
    ELSE IF deadline < now THEN "InvalidDeadline"
    ELSE "ok"

createVoteError(title, options, deadline) ==
    IF Len(title) = 0 THEN "EmptyTitle"
    ELSE IF Len(options) = 0 THEN "NoOptions"
    ELSE IF Len(options) > MAX_OPTIONS THEN "TooManyOptions"
    ELSE IF deadline <= now THEN "InvalidDeadline"
    ELSE "ok"

\* The fields createVote writes into the slot votes[voteId].
newVote(slot, sender, title, description, options, deadline) ==
    [slot EXCEPT !.title = title,
                 !.description = description,
                 !.options = options,
                 !.deadline = deadline,
                 !.totalVoters = 0,
                 !.isActive = TRUE,
                 !.isRevealed = FALSE,
                 !.creator = sender,
                 !.revealedCounts = Zeros(Len(options))]

\* createVote taking its id after the increment (++nextVoteId).
createVote_PreIncrement(sender, title, description, options, deadline) ==
    LET err == createVoteError(title, options, deadline)
        voteId == nextVoteId + 1
    IN  IF err # "ok"
        THEN Reverted
        ELSE /\ nextVoteId < MaxPolls
             /\ steps < MaxSteps
             /\ nextVoteId' = nextVoteId + 1
             /\ votes' = [votes EXCEPT ![voteId] =
                    newVote(@, sender, title, description, options, deadline)]
             /\ events' = <<VoteCreated(voteId, sender, title, deadline)>>
             /\ emitted' = [emitted EXCEPT !.VoteCreated[voteId] = @ + 1]
             /\ returned' = voteId
             /\ steps' = steps + 1
             /\ UNCHANGED <<owner, now, voteRevealRequested>>

\* createVote that takes nextVoteId as the id but never increments it.
createVote_NoIncrement(sender, title, description, options, deadline) ==
    LET err == createVoteError(title, options, deadline)
        voteId == nextVoteId
    IN  IF err # "ok"
        THEN Reverted
        ELSE /\ nextVoteId < MaxPolls
             /\ steps < MaxSteps
             /\ nextVoteId' = nextVoteId
             /\ votes' = [votes EXCEPT ![voteId] =
                    newVote(@, sender, title, description, options, deadline)]
             /\ events' = <<VoteCreated(voteId, sender, title, deadline)>>
             /\ emitted' = [emitted EXCEPT !.VoteCreated[voteId] = @ + 1]
             /\ returned' = voteId
             /\ steps' = steps + 1
             /\ UNCHANGED <<owner, now, voteRevealRequested>>

createVote(sender, title, description, options, deadline) ==
    LET err == createVoteError(title, options, deadline)
        voteId == nextVoteId
    IN  IF err # "ok"
        THEN Reverted
        ELSE /\ nextVoteId < MaxPolls
             /\ steps < MaxSteps
             /\ nextVoteId' = nextVoteId + 1
             /\ votes' = [votes EXCEPT ![voteId] =
                    newVote(@, sender, title, description, options, deadline)]
             /\ events' = <<VoteCreated(voteId, sender, title, deadline)>>
             /\ emitted' = [emitted EXCEPT !.VoteCreated[voteId] = @ + 1]
             /\ returned' = voteId
             /\ steps' = steps + 1
             /\ UNCHANGED <<owner, now, voteRevealRequested>>

\* ------------------------------------------------------------------------
\* castVote
\* ------------------------------------------------------------------------
\* Uint16 reading the two bytes in little-endian order.
Uint16_LittleEndian(b) == b[2] * 256 + b[1]

\* uint256(uint16(bytes2(b))): the two bytes read as a big-endian integer.
Uint16(b) == b[1] * 256 + b[2]

\* The option index castVote tallies for a payload (0-based, as in the code).
ChoiceIndex(encryptedChoice, numOptions) ==
    IF Len(encryptedChoice) >= 2
    THEN LET parsed == IF Len(encryptedChoice) = 2
                       THEN Uint16(encryptedChoice) ELSE 0
         IN  IF parsed >= numOptions THEN 0 ELSE parsed
    ELSE 0

\* castVoteError without the hasVoted check of line 123.
castVoteError_NoVotedCheck(sender, voteId) ==
    LET vote == votes[voteId]
    IN  IF ~vote.isActive THEN "VoteNotFound"
        ELSE IF now >= vote.deadline THEN "VoteExpired"
        ELSE "ok"

\* castVoteError with the hasVoted check moved before the deadline check.
castVoteError_VotedFirst(sender, voteId) ==
    LET vote == votes[voteId]
    IN  IF ~vote.isActive THEN "VoteNotFound"
        ELSE IF vote.hasVoted[sender] THEN "AlreadyVoted"
        ELSE IF now >= vote.deadline THEN "VoteExpired"
        ELSE "ok"

\* castVoteError with the deadline itself still open for voting.
castVoteError_LateDeadline(sender, voteId) ==
    LET vote == votes[voteId]
    IN  IF ~vote.isActive THEN "VoteNotFound"
        ELSE IF now > vote.deadline THEN "VoteExpired"
        ELSE IF vote.hasVoted[sender] THEN "AlreadyVoted"
        ELSE "ok"

\* castVoteError with hasVoted kept per address instead of per poll and
\* address.
castVoteError_AnyPoll(sender, voteId) ==
    LET vote == votes[voteId]
    IN  IF ~vote.isActive THEN "VoteNotFound"
        ELSE IF now >= vote.deadline THEN "VoteExpired"
        ELSE IF \E k \in VoteIds : votes[k].hasVoted[sender]
             THEN "AlreadyVoted"
        ELSE "ok"

\* castVoteError with the deadline check of line 122 before the isActive
\* check of line 121.
castVoteError_ExpiredFirst(sender, voteId) ==
    LET vote == votes[voteId]
    IN  IF now >= vote.deadline THEN "VoteExpired"
        ELSE IF ~vote.isActive THEN "VoteNotFound"
        ELSE IF vote.hasVoted[sender] THEN "AlreadyVoted"
        ELSE "ok"

castVoteError(sender, voteId) ==
    LET vote == votes[voteId]
    IN  IF ~vote.isActive THEN "VoteNotFound"
        ELSE IF now >= vote.deadline THEN "VoteExpired"
        ELSE IF vote.hasVoted[sender] THEN "AlreadyVoted"
        ELSE "ok"

\* tallyVote without the assignment hasVoted[msg.sender] = true of line 141.
tallyVote_NoHasVoted(vote, sender, encryptedChoice, choiceIndex) ==
    [vote EXCEPT !.encryptedVotes[sender] = encryptedChoice,
                 !.totalVoters = @ + 1,
                 !.revealedCounts[choiceIndex + 1] = @ + 1,
                 !.isRevealed = TRUE]

\* tallyVote without the payload store of line 140.
tallyVote_NoPayload(vote, sender, encryptedChoice, choiceIndex) ==
    [vote EXCEPT !.hasVoted[sender] = TRUE,
                 !.totalVoters = @ + 1,
                 !.revealedCounts[choiceIndex + 1] = @ + 1,
                 !.isRevealed = TRUE]

\* tallyVote without the assignment isRevealed = true of line 146.
tallyVote_NoReveal(vote, sender, encryptedChoice, choiceIndex) ==
    [vote EXCEPT !.encryptedVotes[sender] = encryptedChoice,
                 !.hasVoted[sender] = TRUE,
                 !.totalVoters = @ + 1,
                 !.revealedCounts[choiceIndex + 1] = @ + 1]

\* tallyVote without the increment of totalVoters of line 142.
tallyVote_NoTotal(vote, sender, encryptedChoice, choiceIndex) ==
    [vote EXCEPT !.encryptedVotes[sender] = encryptedChoice,
                 !.hasVoted[sender] = TRUE,
                 !.revealedCounts[choiceIndex + 1] = @ + 1,
                 !.isRevealed = TRUE]

\* The poll after castVote has stored and tallied the sender's choice.
tallyVote(vote, sender, encryptedChoice, choiceIndex) ==
    [vote EXCEPT !.encryptedVotes[sender] = encryptedChoice,
                 !.hasVoted[sender] = TRUE,
                 !.totalVoters = @ + 1,
                 !.revealedCounts[choiceIndex + 1] = @ + 1,
                 !.isRevealed = TRUE]

\* castVote that stores the payload of line 140 before the hasVoted check and
\* leaves with a plain return instead of a revert.
castVote_StoreThenReturn(sender, voteId, encryptedChoice) ==
    LET err == castVoteError(sender, voteId)
        vote == votes[voteId]
        choiceIndex == ChoiceIndex(encryptedChoice, Len(vote.options))
    IN  IF err = "AlreadyVoted"
        THEN /\ votes' = [votes EXCEPT
                    ![voteId].encryptedVotes[sender] = encryptedChoice]
             /\ events' = << >>
             /\ returned' = NoRet
             /\ UNCHANGED <<owner, now, nextVoteId, voteRevealRequested, emitted,
                            steps>>
        ELSE IF err # "ok"
        THEN Reverted
        ELSE /\ steps < MaxSteps
             /\ votes' = [votes EXCEPT ![voteId] =
                    tallyVote(@, sender, encryptedChoice, choiceIndex)]
             /\ events' = <<VoteCast(voteId, sender, choiceIndex,
                                     vote.options[choiceIndex + 1])>>
             /\ emitted' = [emitted EXCEPT !.VoteCast[voteId][sender] = @ + 1]
             /\ returned' = NoRet
             /\ steps' = steps + 1
             /\ UNCHANGED <<owner, now, nextVoteId, voteRevealRequested>>

castVote(sender, voteId, encryptedChoice) ==
    LET err == castVoteError(sender, voteId)
        vote == votes[voteId]
        choiceIndex == ChoiceIndex(encryptedChoice, Len(vote.options))
    IN  IF err # "ok"
        THEN Reverted
        ELSE /\ steps < MaxSteps
             /\ votes' = [votes EXCEPT ![voteId] =
                    tallyVote(@, sender, encryptedChoice, choiceIndex)]
             /\ events' = <<VoteCast(voteId, sender, choiceIndex,
                                     vote.options[choiceIndex + 1])>>
             /\ emitted' = [emitted EXCEPT !.VoteCast[voteId][sender] = @ + 1]
             /\ returned' = NoRet
             /\ steps' = steps + 1
             /\ UNCHANGED <<owner, now, nextVoteId, voteRevealRequested>>

\* ------------------------------------------------------------------------
\* revealVoteResults
\* ------------------------------------------------------------------------
\* revealVoteResultsError with the isRevealed check moved before the
\* deadline check.
revealVoteResultsError_RevealedFirst(sender, voteId, decryptedCounts) ==
    LET vote == votes[voteId]
    IN  IF ~vote.isActive THEN "VoteNotFound"
        ELSE IF sender # vote.creator /\ sender # owner THEN "NotVoteCreator"
        ELSE IF vote.isRevealed THEN "VoteAlreadyRevealed"
        ELSE IF now < vote.deadline THEN "VoteNotExpired"
        ELSE IF Len(decryptedCounts) # Len(vote.options) THEN "InvalidOption"
        ELSE "ok"

\* revealVoteResultsError that also requires the counts to add up to the
\* number of voters.
revealVoteResultsError_SumCheck(sender, voteId, decryptedCounts) ==
    LET vote == votes[voteId]
    IN  IF ~vote.isActive THEN "VoteNotFound"
        ELSE IF sender # vote.creator /\ sender # owner THEN "NotVoteCreator"
        ELSE IF now < vote.deadline THEN "VoteNotExpired"
        ELSE IF vote.isRevealed THEN "VoteAlreadyRevealed"
        ELSE IF Len(decryptedCounts) # Len(vote.options) THEN "InvalidOption"
        ELSE IF SumSeq(decryptedCounts) # vote.totalVoters
             THEN "InvalidOption"
        ELSE "ok"

\* revealVoteResultsError with the length check of line 166 made first
\* among the checks on an existing poll.
revealVoteResultsError_LengthFirst(sender, voteId, decryptedCounts) ==
    LET vote == votes[voteId]
    IN  IF ~vote.isActive THEN "VoteNotFound"
        ELSE IF Len(decryptedCounts) # Len(vote.options) THEN "InvalidOption"
        ELSE IF sender # vote.creator /\ sender # owner THEN "NotVoteCreator"
        ELSE IF now < vote.deadline THEN "VoteNotExpired"
        ELSE IF vote.isRevealed THEN "VoteAlreadyRevealed"
        ELSE "ok"

\* revealVoteResultsError without the length check of line 166.
revealVoteResultsError_NoLengthCheck(sender, voteId, decryptedCounts) ==
    LET vote == votes[voteId]
    IN  IF ~vote.isActive THEN "VoteNotFound"
        ELSE IF sender # vote.creator /\ sender # owner THEN "NotVoteCreator"
        ELSE IF now < vote.deadline THEN "VoteNotExpired"
        ELSE IF vote.isRevealed THEN "VoteAlreadyRevealed"
        ELSE "ok"

revealVoteResultsError(sender, voteId, decryptedCounts) ==
    LET vote == votes[voteId]
    IN  IF ~vote.isActive THEN "VoteNotFound"
        ELSE IF sender # vote.creator /\ sender # owner THEN "NotVoteCreator"
        ELSE IF now < vote.deadline THEN "VoteNotExpired"
        ELSE IF vote.isRevealed THEN "VoteAlreadyRevealed"
        ELSE IF Len(decryptedCounts) # Len(vote.options) THEN "InvalidOption"
        ELSE "ok"

\* setResults without the assignment isRevealed = true of line 170.
setResults_NoFlag(vote, decryptedCounts) ==
    [vote EXCEPT !.revealedCounts = decryptedCounts]

\* The poll after revealVoteResults has stored the caller's counts.
setResults(vote, decryptedCounts) ==
    [vote EXCEPT !.revealedCounts = decryptedCounts,
                 !.isRevealed = TRUE]

revealVoteResults(sender, voteId, decryptedCounts) ==
    LET err == revealVoteResultsError(sender, voteId, decryptedCounts)
    IN  IF err # "ok"
        THEN Reverted
        ELSE /\ steps < MaxSteps
             /\ votes' = [votes EXCEPT ![voteId] =
                    setResults(@, decryptedCounts)]
             /\ voteRevealRequested' =
                    [voteRevealRequested EXCEPT ![voteId] = TRUE]
             /\ events' = <<VoteRevealed(voteId, decryptedCounts)>>
             /\ emitted' = [emitted EXCEPT !.VoteRevealed[voteId] = @ + 1]
             /\ returned' = NoRet
             /\ steps' = steps + 1
             /\ UNCHANGED <<owner, now, nextVoteId>>

\* ------------------------------------------------------------------------
\* endVoteEarly
\* ------------------------------------------------------------------------
\* endVoteEarlyError without the authorization check of line 184.
endVoteEarlyError_NoAuth(sender, voteId) ==
    LET vote == votes[voteId]
    IN  IF ~vote.isActive THEN "VoteNotFound"
        ELSE "ok"

endVoteEarlyError(sender, voteId) ==
    LET vote == votes[voteId]
    IN  IF ~vote.isActive THEN "VoteNotFound"
        ELSE IF sender # vote.creator /\ sender # owner THEN "NotVoteCreator"
        ELSE "ok"

\* endNow with the deadline set one tick after the current time.
endNow_Later(vote) == [vote EXCEPT !.deadline = now + 1]

\* endNow that also clears the isActive flag of the ended poll.
endNow_Deactivates(vote) ==
    [vote EXCEPT !.deadline = now, !.isActive = FALSE]

\* endNow that also clears the isRevealed flag of the poll.
endNow_ClearsRevealed(vote) ==
    [vote EXCEPT !.deadline = now, !.isRevealed = FALSE]

\* The poll after endVoteEarly has moved its deadline.
endNow(vote) == [vote EXCEPT !.deadline = now]

\* endVoteEarly that announces the end of the poll with a VoteRevealed event.
endVoteEarly_EmitsRevealed(sender, voteId) ==
    LET err == endVoteEarlyError(sender, voteId)
    IN  IF err # "ok"
        THEN Reverted
        ELSE /\ steps < MaxSteps
             /\ votes' = [votes EXCEPT ![voteId] = endNow(@)]
             /\ events' = <<VoteRevealed(voteId, votes[voteId].revealedCounts)>>
             /\ emitted' = [emitted EXCEPT !.VoteRevealed[voteId] = @ + 1]
             /\ returned' = NoRet
             /\ steps' = steps + 1
             /\ UNCHANGED <<owner, now, nextVoteId, voteRevealRequested>>

endVoteEarly(sender, voteId) ==
    LET err == endVoteEarlyError(sender, voteId)
    IN  IF err # "ok"
        THEN Reverted
        ELSE /\ steps < MaxSteps
             /\ votes' = [votes EXCEPT ![voteId] = endNow(@)]
             /\ events' = << >>
             /\ returned' = NoRet
             /\ steps' = steps + 1
             /\ UNCHANGED <<owner, now, nextVoteId, voteRevealRequested, emitted>>

\* ------------------------------------------------------------------------
\* Ownable: the contract inherits transferOwnership and renounceOwnership
\* (contract AnonVoteFHE is Ownable) and overrides neither.
\* ------------------------------------------------------------------------
\* The arguments of transferOwnership.
NewOwners == {"bob", ZeroAddress}

OwnershipTransferred(previousOwner, newOwner) ==
    [name |-> "OwnershipTransferred", previousOwner |-> previousOwner,
     newOwner |-> newOwner]

transferOwnershipError(sender, newOwner) ==
    IF sender # owner THEN "Ownable: caller is not the owner"
    ELSE IF newOwner = ZeroAddress
         THEN "Ownable: new owner is the zero address"
    ELSE "ok"

transferOwnership(sender, newOwner) ==
    LET err == transferOwnershipError(sender, newOwner)
    IN  IF err # "ok"
        THEN Reverted
        ELSE /\ steps < MaxSteps
             /\ owner' = newOwner
             /\ events' = <<OwnershipTransferred(owner, newOwner)>>
             /\ returned' = NoRet
             /\ steps' = steps + 1
             /\ UNCHANGED <<now, nextVoteId, votes, voteRevealRequested,
                            emitted>>

renounceOwnershipError(sender) ==
    IF sender # owner THEN "Ownable: caller is not the owner" ELSE "ok"

renounceOwnership(sender) ==
    LET err == renounceOwnershipError(sender)
    IN  IF err # "ok"
        THEN Reverted
        ELSE /\ steps < MaxSteps
             /\ owner' = ZeroAddress
             /\ events' = <<OwnershipTransferred(owner, ZeroAddress)>>
             /\ returned' = NoRet
             /\ steps' = steps + 1
             /\ UNCHANGED <<now, nextVoteId, votes, voteRevealRequested,
                            emitted>>

\* ------------------------------------------------------------------------
\* The clock: block.timestamp never goes back.
\* ------------------------------------------------------------------------
Tick ==
    /\ steps < MaxSteps
    /\ now' = now + 1
    /\ steps' = steps + 1
    /\ UNCHANGED <<owner, nextVoteId, votes, voteRevealRequested, events,
                   emitted, returned>>

\* ------------------------------------------------------------------------
\* View functions
\* ------------------------------------------------------------------------
getVoteInfoError(voteId) ==
    IF ~votes[voteId].isActive THEN "VoteNotFound" ELSE "ok"

\* The tuple getVoteInfo returns for an existing poll.
getVoteInfo(voteId) ==
    LET vote == votes[voteId]
    IN  [title |-> vote.title, description |-> vote.description,
         options |-> vote.options, deadline |-> vote.deadline,
         totalVoters |-> vote.totalVoters, isActive |-> vote.isActive,
         isRevealed |-> vote.isRevealed, creator |-> vote.creator]

getVoteResultsError(voteId) ==
    IF ~votes[voteId].isActive THEN "VoteNotFound" ELSE "ok"

\* The counts getVoteResults returns for an existing poll.
getVoteResults(voteId) == votes[voteId].revealedCounts

hasAddressVoted(voteId, addr) == votes[voteId].hasVoted[addr]

getTotalVotes == nextVoteId

isVoteExpired(voteId) == now >= votes[voteId].deadline

\* ------------------------------------------------------------------------
\* utils/fhe.ts: initializeFHE, getFheInstance, resetFheInstance
\* ------------------------------------------------------------------------
\* let fheInstance: any = null
NoInstance == 0

\* The callers of initializeFHE: the mount effect of useFHE, encryptVote and
\* refresh of useFHE.
Callers == {"mount", "encryptVote", "refresh"}

\* The awaits of initializeFHE, at which other code runs.
InFlight == {"import", "initSDK", "createInstance"}

\* The promise of a call has settled and its caller resumes in a microtask.
Settled == {"resolved", "rejected"}

getFheInstance == fheInstance

\* useState<string | null>(null) of useFHE: no error.
NoError == ""

\* The message of the error initializeFHE throws (lines 14, 44); an await
\* rejects with an error of its own.
Message(at) ==
    IF at = "import" THEN "FHE initialization failed: import"
    ELSE IF at = "initSDK" THEN "FHE initialization failed: initSDK"
    ELSE IF at = "createInstance"
    THEN "FHE initialization failed: createInstance"
    ELSE "Ethereum provider not found. Please install MetaMask."

\* A call of initializeFHE made by caller c, standing at `at`.
Call(c, at, instance) ==
    [caller |-> c, pc |-> at, got |-> instance, created |-> FALSE,
     stale |-> FALSE, aborted |-> FALSE, orphan |-> FALSE,
     error |-> NoError]

\* initializeFHE up to its first await, entered while the global holds
\* `instance`: the existing instance is returned (line 10), the missing
\* provider is thrown (lines 13-15), or the SDK import is started (line 21).
Entered(c, instance) ==
    IF instance # NoInstance THEN Call(c, "resolved", instance)
    ELSE IF ~provider
    THEN [Call(c, "rejected", NoInstance) EXCEPT !.error = Message("provider")]
    ELSE Call(c, "import", NoInstance)

\* The call that was just appended to cs is queued when it has settled.
Queued(cs) ==
    IF cs[Len(cs)].pc \in Settled THEN Append(microtasks, Len(cs))
    ELSE microtasks

\* A page load makes at most MaxCalls calls.
initializeFHE(c) ==
    /\ Len(calls) < MaxCalls
    /\ calls' = Append(calls, Entered(c, fheInstance))
    /\ microtasks' = Queued(Append(calls, Entered(c, fheInstance)))

\* The frame of a step of the FHE module alone.
AroundFHE == UNCHANGED <<walletVars, web3Vars, pageVars>>

\* The dynamic import of the SDK has resolved.
importDone(k) ==
    /\ k \in DOMAIN calls
    /\ calls[k].pc = "import"
    /\ calls' = [calls EXCEPT ![k].pc = "initSDK"]
    /\ UNCHANGED <<fheInstance, sdkInstances, microtasks>>
    /\ AroundFHE

\* await initSDK() has resolved.
initSDKDone(k) ==
    /\ k \in DOMAIN calls
    /\ calls[k].pc = "initSDK"
    /\ calls' = [calls EXCEPT ![k].pc = "createInstance"]
    /\ UNCHANGED <<fheInstance, sdkInstances, microtasks>>
    /\ AroundFHE

\* fheInstance = await createInstance(config); return fheInstance.  The
\* promise of the call resolves; its caller resumes in a later microtask.
createInstanceDone(k) ==
    /\ k \in DOMAIN calls
    /\ calls[k].pc = "createInstance"
    /\ sdkInstances' = sdkInstances + 1
    /\ fheInstance' = sdkInstances + 1
    /\ calls' = [calls EXCEPT ![k].pc = "resolved",
                             ![k].got = sdkInstances + 1,
                             ![k].created = TRUE]
    /\ microtasks' = Append(microtasks, k)
    /\ AroundFHE

\* One of the awaits rejects: the catch block rethrows (lines 42-45), nothing
\* is stored.
initializeFailed(k) ==
    /\ k \in DOMAIN calls
    /\ calls[k].pc \in InFlight
    /\ calls' = [calls EXCEPT ![k].pc = "rejected",
                             ![k].error = Message(calls[k].pc)]
    /\ microtasks' = Append(microtasks, k)
    /\ UNCHANGED <<fheInstance, sdkInstances>>
    /\ AroundFHE

\* fheInstance = null
resetFheInstance == fheInstance' = NoInstance

\* resetFheInstance has run since the calls made so far were entered.
Crossed(cs) == [k \in DOMAIN cs |-> [cs[k] EXCEPT !.stale = TRUE]]

\* ------------------------------------------------------------------------
\* hooks/useFHE
\* ------------------------------------------------------------------------
\* A task (an effect, a click, a wallet event, the page unloading) starts
\* only when the microtask queue is empty.
Turn == microtasks = << >>

\* The caller of the call at the head of the microtask queue resumes.
Resuming(c) == microtasks # << >> /\ calls[Head(microtasks)].caller = c

Resumed ==
    /\ calls' = [calls EXCEPT ![Head(microtasks)].pc =
                    IF @ = "resolved" THEN "done" ELSE "failed"]
    /\ microtasks' = Tail(microtasks)

\* The state useFHE starts with (lines 17-20), next to isInitialized.
NoHook == [fhe |-> NoInstance, error |-> NoError, isLoading |-> FALSE]

\* The mount effect of useFHE up to its await: getFheInstance, setFhe and
\* setIsInitialized(true), or setIsLoading(true) and initializeFHE if the
\* instance is null.
mountEffect ==
    /\ ~mounted
    /\ mounted' = TRUE
    /\ IF getFheInstance # NoInstance
       THEN /\ isInitialized' = TRUE
            /\ hook' = [NoHook EXCEPT !.fhe = getFheInstance]
            /\ UNCHANGED <<calls, microtasks>>
       ELSE /\ initializeFHE("mount")
            /\ isInitialized' = FALSE
            /\ hook' = [NoHook EXCEPT !.isLoading = TRUE]
    /\ UNCHANGED <<fheInstance, sdkInstances>>

\* The cleanup of the mount effect (lines 98-103) when the hook unmounts: the
\* signal of the last refresh is aborted.  The state setters of the calls the
\* unmounted hook made do nothing from now on.
mountCleanup ==
    /\ calls' = [k \in DOMAIN calls |->
                    [calls[k] EXCEPT !.orphan = TRUE,
                                     !.aborted = @ \/ calls[k].caller = "refresh"]]
    /\ UNCHANGED <<fheInstance, sdkInstances, microtasks>>

\* The calls made so far with the signal of the refresh calls aborted.
Aborted(cs) ==
    [k \in DOMAIN cs |->
        [cs[k] EXCEPT !.aborted = @ \/ cs[k].caller = "refresh"]]

\* refresh of useFHE: the signal of the previous refresh is aborted,
\* setFhe(null), setIsInitialized(false), setError(null),
\* resetFheInstance(), setIsLoading(true), then initializeFHE() on the
\* cleared global.
refresh ==
    LET cs == Append(Crossed(Aborted(calls)), Entered("refresh", NoInstance))
    IN  /\ Len(calls) < MaxCalls
        /\ resetFheInstance
        /\ isInitialized' = FALSE
        /\ hook' = [NoHook EXCEPT !.isLoading = TRUE]
        /\ calls' = cs
        /\ microtasks' = Queued(cs)
        /\ UNCHANGED sdkInstances

\* handleAccountsChanged of useFHE: the wallet disconnects (no accounts), or
\* the account changes and the instance is refreshed.
handleAccountsChanged(accounts) ==
    IF accounts = {}
    THEN /\ resetFheInstance
         /\ calls' = Crossed(calls)
         /\ isInitialized' = FALSE
         /\ hook' = [hook EXCEPT !.fhe = NoInstance]
         /\ UNCHANGED <<sdkInstances, microtasks>>
    ELSE refresh

\* handleChainChanged of useFHE.
handleChainChanged == refresh

\* The listeners of useFHE are registered while the hook is mounted in a
\* browser with a wallet (lines 108, 127-135).
Listening == provider /\ mounted

\* ------------------------------------------------------------------------
\* The voting page (pages/VoteDetail): its state and what it renders
\* ------------------------------------------------------------------------
Digits == <<"0", "1", "2", "3", "4", "5", "6", "7", "8", "9">>

\* index.toString() of the radio items, for the indices 0..9 a poll can have.
IndexToString(index) == Digits[index + 1]

\* parseInt of a string of one decimal digit.
ParseInt(str) == CHOOSE d \in 0..9 : Digits[d + 1] = str

\* The values of the radio items the page offers for a poll: one per option.
RadioValues(voteId) ==
    {IndexToString(k) : k \in 0..(Len(votes[voteId].options) - 1)}

\* CONTRACT_ADDRESS of Web3Context, the target of the contract of useWeb3.
ContractTarget == "0xAnonVoteFHE"

\* useWeb3 without a contract, and without a connected account.
NoContract == "null"

NoAccount == ""

NoHandle == << >>

\* The value hexlify(handles[0]) of encrypt() for an option index.  The SDK
\* is imported from its CDN when the page runs and decides the bytes; kept
\* are the two bytes of the plain index, the four bytes of the uint32 that
\* add32 was given, and a handle of 32 bytes.
handles(optionIndex) ==
    { <<optionIndex \div 256, optionIndex % 256>>,
      <<0, 0, optionIndex \div 256, optionIndex % 256>>,
      [k \in 1..32 |-> (17 + k * (optionIndex + 1)) % 256] }

\* Neither handleVote nor handleEndVote is running (submitting is false);
\* the last toast stays on the page.
Idle(toast) ==
    [pc |-> "idle", account |-> NoAccount, voteId |-> 0, optionIndex |-> 0,
     call |-> 0, handle |-> NoHandle, tx |-> 0, receipt |-> "none",
     toast |-> toast]

\* useState<VoteData | null>(null)
NoData == << >>

\* The state VoteDetail starts with on the route of poll id (lines 43-47).
FreshView(id) ==
    [id |-> id, loading |-> TRUE, voteData |-> NoData, hasVoted |-> FALSE,
     selectedOption |-> "", isActive |-> FALSE]

\* No VoteDetail is mounted.
NoView == FreshView(0)

\* VoteDetail renders: past the loading and the not-found screens (lines
\* 121-143) isActive is computed from voteData and the clock (line 145); the
\* clock of the browser shows the block time.
Render(v) ==
    [v EXCEPT !.isActive = /\ ~v.loading
                           /\ v.voteData # NoData
                           /\ ~v.voteData[1].isEnded
                           /\ v.voteData[1].deadline > now]

\* The state React compares when a setter is called, next to that of
\* VoteDetail in view: of useFHE, of Web3Provider (chainId is set and
\* cleared with provider), and submitting of VoteDetail.
ReactState ==
    <<isInitialized, hook, account, contract, browserProvider, connecting,
      hv.pc # "idle">>

\* The setters called in a step have run and left VoteDetail the state v:
\* React renders the page again if a state has changed or has been set to
\* a new object, and else leaves the page as it is.
Commit(v, fresh) ==
    view' = IF fresh \/ v # view \/ ReactState' # ReactState THEN Render(v)
            ELSE view

\* The voting section is on the page (line 296).
VotingSection == mounted /\ view.isActive /\ ~view.hasVoted

\* The creator's actions are on the page (lines 146, 392).
CreatorActions ==
    /\ mounted
    /\ view.isActive
    /\ account # NoAccount
    /\ account = view.voteData[1].creator

\* The Submit Vote button is enabled (line 331).
SubmitEnabled ==
    hv.pc = "idle" /\ account # NoAccount /\ view.selectedOption # ""

\* The sequence s without its element n.
Remove(s, n) ==
    [j \in 1..(Len(s) - 1) |-> IF j < n THEN s[j] ELSE s[j + 1]]

\* The effect of lines 50-119 runs in a page whose state is v, with acct and
\* ctr from useWeb3: loadVoteData up to its first await.
loadVoteData(v, acct, ctr) ==
    IF ctr \in {NoContract, ZeroAddress}
    THEN /\ view' = Render([v EXCEPT !.voteData = NoData, !.loading = FALSE])
         /\ loads' = loads
    ELSE /\ view' = Render([v EXCEPT !.loading = TRUE])
         /\ loads' = Append(loads, [pc |-> "getVoteInfo", account |-> acct,
                                    info |-> NoData])

\* The setters of a step of Web3Provider or of useFHE have run: useWeb3
\* returns acct and ctr (fresh: a new Contract object; object: another state
\* was set to a new object).  A mounted VoteDetail runs its load effect when
\* account or contract changed (line 119).
useWeb3Changed(acct, ctr, fresh, object) ==
    IF mounted /\ (acct # account \/ ctr # contract \/ fresh)
    THEN loadVoteData(view, acct, ctr)
    ELSE /\ Commit(view, object)
         /\ loads' = loads

\* await contract.getVoteInfo(voteId) of run n has settled: the call reverted
\* (catch and finally, lines 109-115), or the deadline and isEnded are
\* computed (lines 73-76) and getVoteResults is called.
getVoteInfoDone(n) ==
    /\ n \in DOMAIN loads
    /\ loads[n].pc = "getVoteInfo"
    /\ UNCHANGED <<fheVars, walletVars, web3Vars, mounted, isInitialized,
                   hook, hv, detached>>
    /\ IF getVoteInfoError(view.id) # "ok"
       THEN /\ Commit([view EXCEPT !.voteData = NoData, !.loading = FALSE],
                      FALSE)
            /\ loads' = Remove(loads, n)
       ELSE LET info == getVoteInfo(view.id)
            IN  /\ loads' = [loads EXCEPT ![n] =
                       [@ EXCEPT !.pc = "getVoteResults",
                                 !.info = <<[creator |-> info.creator,
                                             deadline |-> info.deadline,
                                             isEnded |-> \/ ~info.isActive
                                                         \/ info.deadline < now]>>]]
                /\ view' = view

\* await contract.getVoteResults(voteId) of run n has settled, with the
\* counts or into the inner catch: setVoteData of a new object (lines 78-98), then
\* hasAddressVoted is called for a connected account (lines 103-104) or the
\* run ends (finally).
getVoteResultsDone(n) ==
    /\ n \in DOMAIN loads
    /\ loads[n].pc = "getVoteResults"
    /\ IF loads[n].account # NoAccount
       THEN /\ view' = Render([view EXCEPT !.voteData = loads[n].info])
            /\ loads' = [loads EXCEPT ![n].pc = "hasAddressVoted"]
       ELSE /\ view' = Render([view EXCEPT !.voteData = loads[n].info,
                                           !.loading = FALSE])
            /\ loads' = Remove(loads, n)
    /\ UNCHANGED <<fheVars, walletVars, web3Vars, mounted, isInitialized,
                   hook, hv, detached>>

\* await contract.hasAddressVoted(voteId, account) of run n has resolved:
\* setHasVoted (line 105) and the run ends.
hasAddressVotedDone(n) ==
    /\ n \in DOMAIN loads
    /\ loads[n].pc = "hasAddressVoted"
    /\ UNCHANGED <<fheVars, walletVars, web3Vars, mounted, isInitialized,
                   hook, hv, detached>>
    /\ Commit([view EXCEPT
                  !.hasVoted = hasAddressVoted(view.id, loads[n].account),
                  !.loading = FALSE], FALSE)
    /\ loads' = Remove(loads, n)

\* A call of run n to the node rejects: the catch block sets voteData to
\* null (lines 109-112) and the run ends.
loadFailed(n) ==
    /\ n \in DOMAIN loads
    /\ loads[n].pc \in {"getVoteInfo", "hasAddressVoted"}
    /\ UNCHANGED <<fheVars, walletVars, web3Vars, mounted, isInitialized,
                   hook, hv, detached>>
    /\ Commit([view EXCEPT !.voteData = NoData, !.loading = FALSE], FALSE)
    /\ loads' = Remove(loads, n)

\* A radio item of the voting section is chosen (line 308).
setSelectedOption(value) ==
    /\ VotingSection
    /\ value \in RadioValues(view.id)
    /\ value # view.selectedOption
    /\ view' = Render([view EXCEPT !.selectedOption = value])
    /\ UNCHANGED <<fheVars, walletVars, web3Vars, mounted, isInitialized,
                   hook, loads, hv, detached>>

\* ------------------------------------------------------------------------
\* hooks/useFHE in the page: the continuations of its initializeFHE calls
\* ------------------------------------------------------------------------
\* The mount effect after await initializeFHE(): setFhe and
\* setIsInitialized(true) (lines 86-87), or setError in the catch block
\* (lines 88-90), then setIsLoading(false); on a hook that has unmounted the
\* setters do nothing.
mountResumed ==
    /\ Resuming("mount")
    /\ Resumed
    /\ LET call == calls[Head(microtasks)]
       IN  IF call.orphan
           THEN UNCHANGED <<isInitialized, hook>>
           ELSE IF call.pc = "resolved"
           THEN /\ isInitialized' = TRUE
                /\ hook' = [hook EXCEPT !.fhe = call.got,
                                        !.isLoading = FALSE]
           ELSE /\ isInitialized' = isInitialized
                /\ hook' = [hook EXCEPT !.error = call.error,
                                        !.isLoading = FALSE]
    /\ UNCHANGED <<fheInstance, sdkInstances, walletVars, web3Vars, mounted,
                   loads, hv, detached>>
    /\ Commit(view, FALSE)

\* The then, catch and finally of refresh (lines 48-70): setFhe,
\* setIsInitialized(true) and setError(null), or setError, then
\* setIsLoading(false); a call whose signal is aborted sets nothing.
refreshResumed ==
    /\ Resuming("refresh")
    /\ Resumed
    /\ LET call == calls[Head(microtasks)]
       IN  IF call.aborted
           THEN UNCHANGED <<isInitialized, hook>>
           ELSE IF call.pc = "resolved"
           THEN /\ isInitialized' = TRUE
                /\ hook' = [fhe |-> call.got, error |-> NoError,
                            isLoading |-> FALSE]
           ELSE /\ isInitialized' = isInitialized
                /\ hook' = [hook EXCEPT !.error = call.error,
                                        !.isLoading = FALSE]
    /\ UNCHANGED <<fheInstance, sdkInstances, walletVars, web3Vars, mounted,
                   loads, hv, detached>>
    /\ Commit(view, FALSE)

\* The route changes to /vote/id (VoteCard's link): VoteDetail mounts, the
\* mount effect of its useFHE and its load effect run.
mount(id) ==
    /\ mountEffect
    /\ loadVoteData(FreshView(id), account, contract)
    /\ UNCHANGED <<walletVars, web3Vars, hv, detached>>

\* The route leaves the page (navigate('/'), line 221): the cleanup of
\* useFHE runs and the state of the component is gone; its loadVoteData runs
\* set nothing any more, a handleVote or handleEndVote call that is running
\* goes on.
unmount ==
    /\ mounted
    /\ mounted' = FALSE
    /\ mountCleanup
    /\ isInitialized' = FALSE
    /\ hook' = NoHook
    /\ view' = NoView
    /\ loads' = << >>
    /\ detached' = IF hv.pc = "idle" THEN detached ELSE Append(detached, hv)
    /\ hv' = Idle("")
    /\ UNCHANGED <<walletVars, web3Vars>>

\* ------------------------------------------------------------------------
\* contexts/Web3Context: connectWallet, disconnectWallet, autoConnect and
\* the wallet's events
\* ------------------------------------------------------------------------
\* The accounts the wallet connects with.
WalletAccounts == {"bob"}

\* The awaits of connectWallet; autoConnect awaits "eth_accounts" before.
Connecting == {"eth_requestAccounts", "getNetwork", "getSigner"}

\* A call of connectWallet standing at the await `at`; auto: autoConnect
\* made it and goes on after it (lines 132-144).
Connect(at, auto) == [at |-> at, auto |-> auto]

\* The Connect Wallet button of the header is pressed (Header lines 62-70
\* show it without an account and disable it while connecting):
\* connectWallet up to its first await.
connectWallet ==
    /\ account = NoAccount
    /\ ~connecting
    /\ IF ~provider
       THEN UNCHANGED <<connecting, connects>>
       ELSE /\ connecting' = TRUE
            /\ connects' = Append(connects,
                                  Connect("eth_requestAccounts", FALSE))
    /\ UNCHANGED <<fheVars, walletVars, account, contract, browserProvider,
                   signers, reloading, mounted, isInitialized, hook, loads,
                   hv, detached>>
    /\ Commit(view, FALSE)

\* autoConnect after await send('eth_accounts') (lines 128-137): the wallet
\* is still connected and connectWallet(true) runs up to its first await, or
\* the stored flag is removed and autoConnect ends with
\* setIsInitialized(true) (line 144).
ethAccountsDone(n) ==
    /\ n \in DOMAIN connects
    /\ connects[n].at = "eth_accounts"
    /\ UNCHANGED <<fheVars, provider, txCount, mempool, account, contract,
                   browserProvider, signers, reloading, mounted,
                   isInitialized, hook, loads, hv, detached>>
    /\ \E connected \in BOOLEAN :
          IF connected
          THEN /\ connecting' = TRUE
               /\ connects' = [connects EXCEPT
                                  ![n].at = "eth_requestAccounts"]
               /\ walletConnected' = walletConnected
               /\ Commit(view, FALSE)
          ELSE /\ connecting' = connecting
               /\ connects' = Remove(connects, n)
               /\ walletConnected' = FALSE
               /\ Commit(view, TRUE)

\* await send('eth_requestAccounts') has resolved (line 78).
requestAccountsDone(n) ==
    /\ n \in DOMAIN connects
    /\ connects[n].at = "eth_requestAccounts"
    /\ connects' = [connects EXCEPT ![n].at = "getNetwork"]
    /\ UNCHANGED <<fheVars, walletVars, account, contract, browserProvider,
                   connecting, signers, reloading, pageVars>>

\* await getNetwork() has resolved: setAccount, setProvider of the new
\* BrowserProvider and setChainId (lines 79-83), then getSigner is called.
getNetworkDone(n) ==
    /\ n \in DOMAIN connects
    /\ connects[n].at = "getNetwork"
    /\ connects' = [connects EXCEPT ![n].at = "getSigner"]
    /\ browserProvider' = TRUE
    /\ UNCHANGED <<fheVars, walletVars, contract, connecting, signers,
                   reloading, mounted, isInitialized, hook, hv, detached>>
    /\ \E a \in WalletAccounts :
          /\ account' = a
          /\ useWeb3Changed(a, contract, FALSE, TRUE)

\* await getSigner() has resolved: setContract of the new Contract, the flag
\* is stored and connectWallet ends with setConnecting(false) (lines 86-91,
\* 101-103).
getSignerDone(n) ==
    /\ n \in DOMAIN connects
    /\ connects[n].at = "getSigner"
    /\ connects' = Remove(connects, n)
    /\ connecting' = FALSE
    /\ contract' = ContractTarget
    /\ walletConnected' = TRUE
    /\ UNCHANGED <<fheVars, provider, txCount, mempool, account,
                   browserProvider, signers, reloading, mounted,
                   isInitialized, hook, hv, detached>>
    /\ useWeb3Changed(account, ContractTarget, TRUE, TRUE)

\* An await of connectWallet rejects (the user declines): catch and finally
\* of lines 96-103; autoConnect then ends with setIsInitialized(true).
connectFailed(n) ==
    /\ n \in DOMAIN connects
    /\ connects[n].at \in Connecting
    /\ connects' = Remove(connects, n)
    /\ connecting' = FALSE
    /\ UNCHANGED <<fheVars, walletVars, account, contract, browserProvider,
                   signers, reloading, mounted, isInitialized, hook, loads,
                   hv, detached>>
    /\ Commit(view, connects[n].auto)

\* autoConnect's await send('eth_accounts') rejects: the flag is removed
\* (lines 138-141) and autoConnect ends with setIsInitialized(true).
ethAccountsFailed(n) ==
    /\ n \in DOMAIN connects
    /\ connects[n].at = "eth_accounts"
    /\ connects' = Remove(connects, n)
    /\ walletConnected' = FALSE
    /\ UNCHANGED <<fheVars, provider, txCount, mempool, account, contract,
                   browserProvider, connecting, signers, reloading, mounted,
                   isInitialized, hook, loads, hv, detached>>
    /\ Commit(view, TRUE)

\* disconnectWallet (lines 106-116), as the state it sets.
Disconnected ==
    /\ account' = NoAccount
    /\ browserProvider' = FALSE
    /\ contract' = NoContract
    /\ walletConnected' = FALSE

\* The Disconnect button of the header is pressed (Header lines 52-61 show
\* it with an account).
disconnectWallet ==
    /\ account # NoAccount
    /\ Disconnected
    /\ UNCHANGED <<fheVars, provider, txCount, mempool, connecting, connects,
                   signers, reloading, mounted, isInitialized, hook, hv,
                   detached>>
    /\ useWeb3Changed(NoAccount, NoContract, FALSE, FALSE)

\* handleAccountsChanged of Web3Provider (lines 153-169) up to its await:
\* disconnectWallet without accounts, else setAccount and, with a provider,
\* getSigner is called.
handleAccountsChangedWeb3(accounts) ==
    IF accounts = {}
    THEN /\ Disconnected
         /\ signers' = signers
    ELSE /\ \E a \in accounts : account' = a
         /\ signers' = IF browserProvider THEN signers + 1 ELSE signers
         /\ UNCHANGED <<contract, browserProvider, walletConnected>>

\* handleChainChanged of Web3Provider (lines 171-173).
handleChainChangedWeb3 == reloading' = TRUE

\* The wallet emits accountsChanged: the listener of Web3Provider runs, and
\* that of useFHE while VoteDetail is mounted.
accountsChanged(accounts) ==
    /\ provider
    /\ handleAccountsChangedWeb3(accounts)
    /\ IF Listening
       THEN handleAccountsChanged(accounts)
       ELSE UNCHANGED <<fheVars, isInitialized, hook>>
    /\ UNCHANGED <<provider, txCount, mempool, connecting, connects,
                   reloading, mounted, hv, detached>>
    /\ useWeb3Changed(account', contract', FALSE, FALSE)

\* The wallet emits chainChanged: the listener of Web3Provider calls
\* window.location.reload(), and that of useFHE refreshes while VoteDetail
\* is mounted.
chainChanged ==
    /\ provider
    /\ handleChainChangedWeb3
    /\ IF Listening
       THEN handleChainChanged
       ELSE UNCHANGED <<fheVars, isInitialized, hook>>
    /\ UNCHANGED <<walletVars, account, contract, browserProvider, connecting,
                   connects, signers, mounted, loads, hv, detached>>
    /\ Commit(view, FALSE)

\* await provider.getSigner() of handleAccountsChanged has resolved:
\* setContract with a new Contract (lines 161-163).
contractUpdated ==
    /\ signers > 0
    /\ signers' = signers - 1
    /\ contract' = ContractTarget
    /\ UNCHANGED <<fheVars, walletVars, account, browserProvider, connecting,
                   connects, reloading, mounted, isInitialized, hook, hv,
                   detached>>
    /\ useWeb3Changed(account, ContractTarget, TRUE, TRUE)

\* await provider.getSigner() of handleAccountsChanged rejects (lines
\* 164-166).
contractUpdateFailed ==
    /\ signers > 0
    /\ signers' = signers - 1
    /\ UNCHANGED <<fheVars, walletVars, account, contract, browserProvider,
                   connecting, connects, reloading, pageVars>>

\* ------------------------------------------------------------------------
\* handleVote of VoteDetail, and encryptVote of utils/fhe.ts
\* ------------------------------------------------------------------------
\* encryptVote up to its first await: const fhe = await initializeFHE().
encryptVoteInit == initializeFHE("encryptVote")

\* handleVote up to its first await: the guards of lines 150-173, then
\* encryptVote is called and runs initializeFHE up to its first await.  acct
\* and ctr are account and contract of useWeb3 as the page rendered them.
\* Without a contract setSubmitting(true) and setSubmitting(false) run in
\* the same step, which leaves the state as it was.
handleVote(acct, ctr, voteId, selectedOption) ==
    /\ hv.pc = "idle"
    /\ IF acct = NoAccount
       THEN /\ hv' = Idle("Please connect wallet first")
            /\ UNCHANGED <<calls, microtasks, view>>
       ELSE IF selectedOption = ""
       THEN /\ hv' = Idle("Please select an option")
            /\ UNCHANGED <<calls, microtasks, view>>
       ELSE IF ~isInitialized
       THEN /\ hv' = Idle("FHE is still initializing, please wait...")
            /\ UNCHANGED <<calls, microtasks, view>>
       ELSE IF ctr \in {NoContract, ZeroAddress}
       THEN /\ hv' = Idle("Contract not available. Please deploy a contract first.")
            /\ UNCHANGED <<calls, microtasks, view>>
       ELSE /\ encryptVoteInit
            /\ hv' = [pc |-> "initializeFHE", account |-> acct,
                      voteId |-> voteId,
                      optionIndex |-> ParseInt(selectedOption),
                      call |-> Len(calls) + 1,
                      handle |-> NoHandle, tx |-> 0, receipt |-> "none",
                      toast |-> "Encrypting your vote..."]
            /\ view' = Render(view)
    /\ UNCHANGED <<fheInstance, sdkInstances, walletVars, web3Vars, mounted,
                   isInitialized, hook, loads, detached>>

\* The Submit Vote button is pressed.
submitVote ==
    /\ VotingSection
    /\ SubmitEnabled
    /\ handleVote(account, contract, view.id, view.selectedOption)

\* handleEndVote up to its await (lines 203-207): setSubmitting(true) and a
\* timer of 2000 ms is set; the contract is not called.
handleEndVote ==
    /\ hv' = [Idle(hv.toast) EXCEPT !.pc = "setTimeout"]
    /\ view' = Render(view)
    /\ UNCHANGED <<fheVars, walletVars, web3Vars, mounted, isInitialized,
                   hook, loads, detached>>

\* The End Poll Early button is pressed (lines 392-398: shown to the
\* creator of an active poll, disabled while submitting).
endVote ==
    /\ CreatorActions
    /\ hv.pc = "idle"
    /\ handleEndVote

\* The calls of handleVote and handleEndVote that may be running: 0 is the
\* call of the mounted page, n > 0 the call detached[n].
Running == 0..Len(detached)

Rec(n) == IF n = 0 THEN hv ELSE detached[n]

\* Call n goes on as h.
Continued(n, h) ==
    IF n = 0
    THEN /\ hv' = h
         /\ UNCHANGED <<view, detached>>
    ELSE /\ detached' = [detached EXCEPT ![n] = h]
         /\ UNCHANGED <<view, hv>>

\* Call n ends with a toast: after setHasVoted(true) if it voted, and
\* setSubmitting(false) (lines 192-200, 208-213); an unmounted page has no
\* state to set.
Returned(n, toast, voted) ==
    IF n = 0
    THEN /\ hv' = Idle(toast)
         /\ view' = Render([view EXCEPT !.hasVoted = @ \/ voted])
         /\ detached' = detached
    ELSE /\ detached' = Remove(detached, n)
         /\ UNCHANGED <<view, hv>>

\* The frame of a step of handleVote after its first await.
AroundVote == UNCHANGED <<fheVars, walletVars, web3Vars, mounted,
                          isInitialized, hook, loads>>

\* The timer of handleEndVote has fired: the toast, and setSubmitting(false)
\* (lines 207-213).
handleEndVoteDone(n) ==
    /\ n \in Running
    /\ Rec(n).pc = "setTimeout"
    /\ Returned(n, "Poll ended early", FALSE)
    /\ AroundVote

\* encryptVote after await initializeFHE() (line 115): with the instance it
\* calls createEncryptedInput (line 118); a failed initialization is thrown
\* into the catch block of handleVote (lines 195-197).
initializeFHEAwaited(n) ==
    /\ n \in Running
    /\ Rec(n).pc = "initializeFHE"
    /\ microtasks # << >>
    /\ Head(microtasks) = Rec(n).call
    /\ Resumed
    /\ IF calls[Head(microtasks)].pc = "resolved"
       THEN Continued(n, [Rec(n) EXCEPT !.pc = "createEncryptedInput"])
       ELSE Returned(n, "Failed to vote", FALSE)
    /\ UNCHANGED <<fheInstance, sdkInstances, walletVars, web3Vars, mounted,
                   isInitialized, hook, loads>>

\* await fhe.createEncryptedInput(...) has resolved: add32(optionIndex) and
\* ciphertext.encrypt() is called (lines 118-124).
createEncryptedInputDone(n) ==
    /\ n \in Running
    /\ Rec(n).pc = "createEncryptedInput"
    /\ Continued(n, [Rec(n) EXCEPT !.pc = "encrypt"])
    /\ AroundVote

\* await ciphertext.encrypt() has resolved: encryptVote returns
\* hexlify(handles[0]) and handleVote calls contract.castVote(voteData.id,
\* handle) (lines 124-128, 184-187).
encryptDone(n) ==
    /\ n \in Running
    /\ Rec(n).pc = "encrypt"
    /\ \E handle \in handles(Rec(n).optionIndex) :
          Continued(n, [Rec(n) EXCEPT
                           !.pc = "castVote", !.handle = handle,
                           !.toast = "Submitting encrypted vote to blockchain..."])
    /\ AroundVote

\* The wallet signs and broadcasts the transaction of contract.castVote;
\* optionIndex keeps what the voter selected next to the payload.
txBroadcast(n) ==
    /\ n \in Running
    /\ Rec(n).pc = "castVote"
    /\ Rec(n).tx = 0
    /\ txCount' = txCount + 1
    /\ mempool' = mempool \cup
           {[id |-> txCount + 1, sender |-> Rec(n).account,
             voteId |-> Rec(n).voteId, handle |-> Rec(n).handle,
             optionIndex |-> Rec(n).optionIndex]}
    /\ Continued(n, [Rec(n) EXCEPT !.tx = txCount + 1])
    /\ UNCHANGED <<fheVars, provider, walletConnected, web3Vars, mounted,
                   isInitialized, hook, loads>>

\* await contract.castVote(...) has resolved with the broadcast transaction
\* and handleVote waits for it (lines 187-190).
castVoteSent(n) ==
    /\ n \in Running
    /\ Rec(n).pc = "castVote"
    /\ Rec(n).tx # 0
    /\ Continued(n, [Rec(n) EXCEPT
                        !.pc = "wait",
                        !.toast = "Waiting for transaction confirmation..."])
    /\ AroundVote

\* The handleVote call h sees the receipt of the transaction numbered id.
Receipt(h, id, receipt) ==
    IF h.tx = id /\ h.pc # "idle" THEN [h EXCEPT !.receipt = receipt] ELSE h

\* The network mines a broadcast transaction at the current block time; the
\* handleVote call that sent it, if it is still running, will see the receipt.
mine(tx) ==
    /\ tx \in mempool
    /\ castVote(tx.sender, tx.voteId, tx.handle)
    /\ mempool' = mempool \ {tx}
    /\ LET receipt == IF castVoteError(tx.sender, tx.voteId) = "ok"
                      THEN "success" ELSE "reverted"
       IN  /\ hv' = Receipt(hv, tx.id, receipt)
           /\ detached' = [n \in DOMAIN detached |->
                              Receipt(detached[n], tx.id, receipt)]
    /\ UNCHANGED <<fheVars, provider, txCount, walletConnected, web3Vars,
                   mounted, isInitialized, hook, view, loads>>

\* await tx.wait() has settled with the receipt: setHasVoted(true) and the
\* success toast (lines 192-193), or the revert is caught (lines 195-197).
waitDone(n) ==
    /\ n \in Running
    /\ Rec(n).pc = "wait"
    /\ Rec(n).receipt # "none"
    /\ IF Rec(n).receipt = "success"
       THEN Returned(n, "Vote submitted successfully! Your vote is encrypted on-chain.",
                     TRUE)
       ELSE Returned(n, "Failed to vote", FALSE)
    /\ AroundVote

\* An await of the SDK, of the wallet or of the provider rejects (encryption
\* fails, the user declines the transaction, the connection is lost while
\* waiting): the catch block of lines 195-197.  A transaction that was
\* broadcast stays broadcast.
handleVoteRejected(n) ==
    /\ n \in Running
    /\ Rec(n).pc \in {"createEncryptedInput", "encrypt", "castVote", "wait"}
    /\ Returned(n, "Failed to vote", FALSE)
    /\ AroundVote

\* The page unloads and loads again after window.location.reload(): the
\* module and the components start afresh on the same route, autoConnect
\* runs up to its await when the flag is stored (lines 119-128); the wallet,
\* the storage and the network keep what they have.
reload ==
    /\ reloading
    /\ reloading' = FALSE
    /\ fheInstance' = NoInstance
    /\ sdkInstances' = 0
    /\ account' = NoAccount
    /\ contract' = NoContract
    /\ browserProvider' = FALSE
    /\ signers' = 0
    /\ connecting' = FALSE
    /\ connects' = IF walletConnected /\ provider
                   THEN <<Connect("eth_accounts", TRUE)>>
                   ELSE << >>
    /\ isInitialized' = FALSE
    /\ hook' = [NoHook EXCEPT !.isLoading = mounted]
    /\ loads' = << >>
    /\ hv' = Idle("")
    /\ detached' = << >>
    /\ IF mounted
       THEN /\ calls' = <<Entered("mount", NoInstance)>>
            /\ microtasks' = IF Entered("mount", NoInstance).pc \in Settled
                             THEN <<1>> ELSE << >>
            /\ view' = Render([FreshView(view.id) EXCEPT !.loading = FALSE])
       ELSE /\ calls' = << >>
            /\ microtasks' = << >>
            /\ view' = NoView
    /\ UNCHANGED <<walletVars, mounted>>

FheInit ==
    /\ fheInstance = NoInstance
    /\ sdkInstances = 0
    /\ calls = << >>
    /\ microtasks = << >>

\* Web3Provider and the page after the scripts of the page have run, on the
\* home route and in a browser that has not stored a connection.
PageInit ==
    /\ txCount = 0
    /\ mempool = {}
    /\ walletConnected = FALSE
    /\ account = NoAccount
    /\ contract = NoContract
    /\ browserProvider = FALSE
    /\ connecting = FALSE
    /\ connects = << >>
    /\ signers = 0
    /\ reloading = FALSE
    /\ mounted = FALSE
    /\ isInitialized = FALSE
    /\ hook = NoHook
    /\ view = NoView
    /\ loads = << >>
    /\ hv = Idle("")
    /\ detached = << >>

Init ==
    /\ now = 1
    /\ nextVoteId = 0
    /\ votes = [i \in VoteIds |-> EmptyVote]
    /\ voteRevealRequested = [i \in VoteIds |-> FALSE]
    /\ events = << >>
    /\ emitted = EmptyLog
    /\ returned = NoRet
    /\ steps = 0
    /\ owner = "deployer"
    /\ FheInit
    /\ PageInit
    /\ provider = TRUE

\* The page loaded in a browser with or without a wallet, on the freshly
\* deployed contract.
InitBrowser ==
    /\ now = 1
    /\ nextVoteId = 0
    /\ votes = [i \in VoteIds |-> EmptyVote]
    /\ voteRevealRequested = [i \in VoteIds |-> FALSE]
    /\ events = << >>
    /\ emitted = EmptyLog
    /\ returned = NoRet
    /\ steps = 0
    /\ owner = "deployer"
    /\ FheInit
    /\ PageInit
    /\ provider \in BOOLEAN

\* The poll ids calls are made with: every allocated id and the first id
\* that is not allocated (all unallocated ids are answered alike).
CalledIds == 0..nextVoteId

\* The calls made to the contract.  createVote reads msg.sender only when it
\* stores the creator, so a call with rejected arguments is the same step
\* for every sender and is made by the deployer alone.
CreateCalls ==
    {c \in Creators \X Titles \X Descriptions \X OptionInputs \X DeadlineInputs :
        c[1] = "deployer" \/ createVoteError(c[2], c[4], c[5]) = "ok"}

\* The ids below nextVoteId are allocated; line 121 (163, 183) answers every
\* other id alike before it reads the sender or the arguments, so one call
\* is made with the first id that is not allocated.
AllocatedIds == 0..(nextVoteId - 1)

CastCalls ==
    (Addr \X AllocatedIds \X Payloads) \cup {<<"bob", nextVoteId, <<0, 1>>>>}

RevealCalls ==
    (Addr \X AllocatedIds \X CountInputs) \cup {<<"deployer", nextVoteId, <<7>>>>}

EndCalls == (Addr \X AllocatedIds) \cup {<<"deployer", nextVoteId>>}

Next ==
    \/ \E c \in CreateCalls :
          createVote(c[1], c[2], c[3], c[4], c[5]) /\ UNCHANGED browserVars
    \/ \E c \in CastCalls : castVote(c[1], c[2], c[3]) /\ UNCHANGED browserVars
    \/ \E c \in RevealCalls :
          revealVoteResults(c[1], c[2], c[3]) /\ UNCHANGED browserVars
    \/ \E c \in EndCalls : endVoteEarly(c[1], c[2]) /\ UNCHANGED browserVars
    \/ \E s \in Addr, n \in NewOwners :
          transferOwnership(s, n) /\ UNCHANGED browserVars
    \/ \E s \in Addr : renounceOwnership(s) /\ UNCHANGED browserVars
    \/ Tick /\ UNCHANGED browserVars

Spec == Init /\ [][Next]_vars

\* ------------------------------------------------------------------------
\* Vocabulary of the properties
\* ------------------------------------------------------------------------
Active(i) == votes[i].isActive

Expired(i) == now >= votes[i].deadline

Authorized(s, i) == s = votes[i].creator \/ s = owner

\* The tally-related fields of poll i are the same before and after the step.
TallyUnchanged(i) ==
    /\ votes'[i].revealedCounts = votes[i].revealedCounts
    /\ votes'[i].totalVoters = votes[i].totalVoters
    /\ votes'[i].hasVoted = votes[i].hasVoted

\* The step changed nothing a caller can observe in the ledger.
NoEffect ==
    /\ UNCHANGED <<owner, nextVoteId, votes, voteRevealRequested, emitted>>
    /\ events' = << >>

\* ------------------------------------------------------------------------
\* C1: double-vote prevention.  For every poll and principal at most one
\* castVote by that principal on that poll ever succeeds (the log never holds
\* two VoteCast events of one voter on one poll, and hasVoted never goes back
\* to false); a castVote by a principal whose hasVoted is already true leaves
\* revealedCounts, totalVoters and hasVoted of the poll unchanged.
\* ------------------------------------------------------------------------
C1_DoubleVotePrevention ==
    /\ [](\A i \in VoteIds, s \in Addr :
            /\ emitted.VoteCast[i][s] <= 1
            /\ votes[i].hasVoted[s] <=> emitted.VoteCast[i][s] = 1)
    /\ [][\/ votes' = votes
          \/ \A i \in VoteIds, s \in Addr :
                /\ votes[i].hasVoted[s] => votes'[i].hasVoted[s]
                /\ \/ TallyUnchanged(i)
                   \/ ~votes[i].hasVoted[s]
                   \/ \A p \in Payloads : ~castVote(s, i, p)]_vars

\* A voter has voted once on a poll that is still open, so that only the
\* hasVoted check stands between that voter and a second vote.
C1_Witness ==
    \E i \in VoteIds, s \in Addr :
        /\ votes[i].hasVoted[s]
        /\ emitted.VoteCast[i][s] = 1
        /\ castVoteError(s, i) = "AlreadyVoted"
        /\ events = << >>

\* ------------------------------------------------------------------------
\* C2 as stated: on an existing poll, a castVote by a principal that has
\* already voted is rejected with AlreadyVoted at every current time.
\* ------------------------------------------------------------------------
C2_Original ==
    \A i \in VoteIds, s \in Addr :
        (Active(i) /\ votes[i].hasVoted[s])
            => castVoteError(s, i) = "AlreadyVoted"

\* C2 as amended: on an existing poll, a castVote by a principal that has
\* already voted is always rejected and changes nothing, for every payload:
\* with AlreadyVoted while the current time is strictly before the deadline,
\* with VoteExpired once the current time has reached the deadline.
C2_SecondVoteRejected ==
    /\ [](\A i \in VoteIds, s \in Addr :
            (Active(i) /\ votes[i].hasVoted[s])
                => castVoteError(s, i) =
                     IF now < votes[i].deadline THEN "AlreadyVoted"
                                                ELSE "VoteExpired")
    /\ [][\/ NoEffect
          \/ \A i \in VoteIds, s \in Addr, p \in Payloads :
                ~(Active(i) /\ votes[i].hasVoted[s] /\ castVote(s, i, p))]_vars

\* A voter has voted on a poll whose deadline has since been reached.
C2_Witness ==
    \E i \in VoteIds, s \in Addr :
        /\ Active(i)
        /\ votes[i].hasVoted[s]
        /\ Expired(i)
        /\ castVoteError(s, i) = "VoteExpired"

\* ------------------------------------------------------------------------
\* C3: for every poll on which no revealVoteResults has succeeded,
\* sum(revealedCounts) = totalVoters, whatever createVote, castVote and
\* endVoteEarly calls (successful or rejected) came before.
\* ------------------------------------------------------------------------
C3_SumEqualsTotalVoters ==
    \A i \in VoteIds :
        ~voteRevealRequested[i]
            => SumSeq(votes[i].revealedCounts) = votes[i].totalVoters

\* Two votes for two different options were tallied on a poll that was then
\* ended early and never revealed by revealVoteResults.
C3_Witness ==
    \E i \in VoteIds :
        /\ ~voteRevealRequested[i]
        /\ votes[i].totalVoters = 2
        /\ votes[i].revealedCounts[1] = 1
        /\ votes[i].revealedCounts[2] = 1
        /\ votes[i].deadline = now

\* ------------------------------------------------------------------------
\* C4: deadline enforcement.  A castVote on an existing poll issued when the
\* current time is at or after the poll's deadline is rejected with
\* VoteExpired and changes nothing; this includes every castVote issued at the
\* timestamp at which endVoteEarly was applied.
\* ------------------------------------------------------------------------
C4_DeadlineEnforcement ==
    /\ [](\A i \in VoteIds, s \in Addr :
            (Active(i) /\ now >= votes[i].deadline)
                => castVoteError(s, i) = "VoteExpired")
    /\ [][\/ NoEffect
          \/ \A i \in VoteIds, s \in Addr, p \in Payloads :
                ~(Active(i) /\ now >= votes[i].deadline /\ castVote(s, i, p))]_vars
    /\ [][\/ steps' = steps
          \/ \A i \in VoteIds, s \in Addr :
                (endVoteEarlyError(s, i) = "ok" /\ endVoteEarly(s, i))
                    => /\ now' = votes'[i].deadline
                       /\ \A v \in Addr : castVoteError(v, i)' = "VoteExpired"]_vars

\* A poll created at time 1 that has taken a vote and was ended early at
\* time 1: the clock still shows the timestamp of endVoteEarly.
C4_Witness ==
    /\ now = 1
    /\ Active(0)
    /\ votes[0].deadline = 1
    /\ votes[0].totalVoters = 1

\* ------------------------------------------------------------------------
\* C5: after a successful endVoteEarly on a poll every later castVote on it,
\* by any caller at any later or equal time, is rejected as expired, and no
\* vote is ever counted on that poll again.  Closed(i) says that castVote on
\* poll i answers VoteExpired to every caller; endVoteEarly establishes it
\* and no step undoes it or counts a vote on a closed poll.
\* ------------------------------------------------------------------------
Closed(i) == \A v \in Addr : castVoteError(v, i) = "VoteExpired"

C5_EndVoteEarlyClosesPoll ==
    [][\/ steps' = steps
       \/ \A i \in VoteIds :
            /\ (\E s \in Addr :
                    endVoteEarlyError(s, i) = "ok" /\ endVoteEarly(s, i))
                 => Closed(i)'
            /\ Closed(i)
                 => /\ Closed(i)'
                    /\ votes'[i].totalVoters = votes[i].totalVoters
                    /\ votes'[i].hasVoted = votes[i].hasVoted
                    /\ emitted'.VoteCast[i] = emitted.VoteCast[i]]_vars

\* A poll that took a vote and was ended early at time 1, seen one tick later.
C5_Witness ==
    /\ now = 2
    /\ Active(0)
    /\ votes[0].deadline = 1
    /\ votes[0].totalVoters = 1
    /\ Closed(0)

\* ------------------------------------------------------------------------
\* C6: authorization.  On an existing poll endVoteEarly and revealVoteResults
\* called by a principal that is neither the poll's creator nor the owner
\* fail with NotVoteCreator and change nothing; the creator of a poll and the
\* owner pass the check of endVoteEarly on it; and a step that moves the
\* deadline of an existing poll or replaces its tally without counting a vote
\* is an endVoteEarly or revealVoteResults call of that poll's creator or of
\* the owner.
\* ------------------------------------------------------------------------
C6_Authorization ==
    /\ [](\A i \in VoteIds, s \in Addr :
            Active(i) =>
                IF Authorized(s, i)
                THEN endVoteEarlyError(s, i) = "ok"
                ELSE /\ endVoteEarlyError(s, i) = "NotVoteCreator"
                     /\ \A c \in CountInputs :
                          revealVoteResultsError(s, i, c) = "NotVoteCreator")
    /\ [][\/ NoEffect
          \/ \A i \in VoteIds, s \in Addr :
                ~(/\ Active(i)
                  /\ ~Authorized(s, i)
                  /\ \/ endVoteEarly(s, i)
                     \/ \E c \in CountInputs : revealVoteResults(s, i, c))]_vars
    /\ [][\/ votes' = votes
          \/ \A i \in VoteIds :
                (/\ Active(i)
                 /\ \/ votes'[i].deadline # votes[i].deadline
                    \/ /\ votes'[i].revealedCounts # votes[i].revealedCounts
                       /\ votes'[i].totalVoters = votes[i].totalVoters)
                  => \E s \in Addr :
                        /\ Authorized(s, i)
                        /\ \/ endVoteEarly(s, i)
                           \/ \E c \in CountInputs :
                                revealVoteResults(s, i, c)]_vars

\* alice's poll 0 was ended early at time 1 and the deployer, who created
\* poll 1, has transferred the ownership to bob: bob now passes the check on
\* both polls, the deployer only on poll 1 and alice only on poll 0.
C6_Witness ==
    /\ now = 1
    /\ owner = "bob"
    /\ votes[0].creator = "alice"
    /\ votes[0].deadline = 1
    /\ votes[1].creator = "deployer"
    /\ endVoteEarlyError("bob", 0) = "ok"
    /\ endVoteEarlyError("bob", 1) = "ok"
    /\ endVoteEarlyError("deployer", 0) = "NotVoteCreator"
    /\ endVoteEarlyError("alice", 1) = "NotVoteCreator"

\* ------------------------------------------------------------------------
\* C7 as stated: revealVoteResults on an existing poll strictly before the
\* deadline fails with VoteNotExpired for every caller and every counts
\* argument.
\* ------------------------------------------------------------------------
C7_Original ==
    \A i \in VoteIds, s \in Addr, c \in CountInputs :
        (Active(i) /\ now < votes[i].deadline)
            => revealVoteResultsError(s, i, c) = "VoteNotExpired"

\* C7 as amended: revealVoteResults on an existing poll strictly before the
\* deadline always fails and changes nothing, for every counts argument: with
\* VoteNotExpired when the caller is the poll's creator or the owner, with
\* NotVoteCreator for every other caller.
C7_RevealBeforeDeadline ==
    /\ [](\A i \in VoteIds, s \in Addr, c \in CountInputs :
            (Active(i) /\ now < votes[i].deadline)
                => revealVoteResultsError(s, i, c) =
                     IF Authorized(s, i) THEN "VoteNotExpired"
                                         ELSE "NotVoteCreator")
    /\ [][\/ NoEffect
          \/ \A i \in VoteIds, s \in Addr, c \in CountInputs :
                ~(/\ Active(i)
                  /\ now < votes[i].deadline
                  /\ revealVoteResults(s, i, c))]_vars

\* An open poll that has already taken a vote (so isRevealed is set) and whose
\* creator is not the owner: a reveal before the deadline meets every check.
C7_Witness ==
    \E i \in VoteIds :
        /\ Active(i)
        /\ now < votes[i].deadline
        /\ votes[i].isRevealed
        /\ votes[i].creator # owner
        /\ \A c \in CountInputs :
             revealVoteResultsError(votes[i].creator, i, c) = "VoteNotExpired"

\* ------------------------------------------------------------------------
\* C8: at most one revealVoteResults ever succeeds per poll.  The log never
\* holds two VoteRevealed events of one poll; once a reveal has succeeded the
\* poll is revealed and every revealVoteResults of its creator or the owner
\* fails with VoteAlreadyRevealed; isRevealed, once true, never becomes false.
\* ------------------------------------------------------------------------
C8_SingleReveal ==
    /\ [](\A i \in VoteIds :
            /\ emitted.VoteRevealed[i] <= 1
            /\ voteRevealRequested[i] <=> emitted.VoteRevealed[i] = 1
            /\ voteRevealRequested[i] =>
                 /\ votes[i].isRevealed
                 /\ \A s \in Addr, c \in CountInputs :
                      Authorized(s, i) =>
                        revealVoteResultsError(s, i, c) = "VoteAlreadyRevealed")
    /\ [][\/ votes' = votes
          \/ \A i \in VoteIds :
                votes[i].isRevealed => votes'[i].isRevealed]_vars

\* A poll whose results were revealed once, after which a further call was
\* turned down (the last call emitted nothing).
C8_Witness ==
    \E i \in VoteIds :
        /\ voteRevealRequested[i]
        /\ emitted.VoteRevealed[i] = 1
        /\ votes[i].revealedCounts = <<7>>
        /\ events = << >>

\* ------------------------------------------------------------------------
\* C9: sequential ids.  Every successful createVote returns the number of
\* polls created before it; nextVoteId equals the number of polls created,
\* moves only in a successful createVote and then by exactly one; ids
\* 0 .. nextVoteId - 1 have been assigned exactly once and no other id ever.
\* ------------------------------------------------------------------------
CreatedSoFar ==
    SumSeq([k \in 1..(MaxPolls + 1) |-> emitted.VoteCreated[k - 1]])

C9_SequentialIds ==
    /\ [](/\ nextVoteId = CreatedSoFar
          /\ \A i \in VoteIds :
               emitted.VoteCreated[i] = IF i < nextVoteId THEN 1 ELSE 0
          /\ returned # NoRet => returned < nextVoteId)
    /\ [][\/ /\ nextVoteId' = nextVoteId
             /\ emitted'.VoteCreated = emitted.VoteCreated
          \/ /\ nextVoteId' = nextVoteId + 1
             /\ returned' = CreatedSoFar
             /\ ~Active(returned')
             /\ events' # << >>
             /\ events'[1].name = "VoteCreated"
             /\ events'[1].voteId = returned']_vars
    /\ [][\/ steps' = steps
          \/ nextVoteId' = nextVoteId + 1 /\ returned' = nextVoteId
          \/ \A t \in Titles, o \in OptionInputs, dl \in DeadlineInputs :
                createVoteError(t, o, dl) = "ok"
                    => \A s \in Creators, d \in Descriptions :
                          ~createVote(s, t, d, o, dl)]_vars
    /\ [][\/ nextVoteId' = nextVoteId /\ returned' = NoRet
          \/ \A t \in Titles, o \in OptionInputs, dl \in DeadlineInputs :
                createVoteError(t, o, dl) # "ok"
                    => \A s \in Creators, d \in Descriptions :
                          ~createVote(s, t, d, o, dl)]_vars

\* Two polls were created, the second call returning id 1.
C9_Witness ==
    /\ nextVoteId = 2
    /\ returned = 1
    /\ Active(0)
    /\ Active(1)
    /\ ~Active(2)

\* ------------------------------------------------------------------------
\* C10: createVote validation.  The call is rejected with EmptyTitle for an
\* empty title, else with NoOptions for no options, else with TooManyOptions
\* for more than 10 options, else with InvalidDeadline for a deadline that is
\* not after the current time, and passes validation for every other input;
\* every stored poll has a non-empty title and between 1 and 10 options, and
\* its deadline was strictly in the future when it was created.
\* ------------------------------------------------------------------------
C10_CreateVoteValidation ==
    /\ [](\A t \in Titles, o \in OptionInputs, dl \in DeadlineInputs :
            LET err == createVoteError(t, o, dl)
            IN  /\ t = "" => err = "EmptyTitle"
                /\ (t # "" /\ o = << >>) => err = "NoOptions"
                /\ (t # "" /\ Len(o) > 10) => err = "TooManyOptions"
                /\ (t # "" /\ Len(o) \in 1..10 /\ dl <= now)
                      => err = "InvalidDeadline"
                /\ (t # "" /\ Len(o) \in 1..10 /\ dl > now) => err = "ok")
    /\ [](\A i \in VoteIds :
            Active(i) => /\ votes[i].title # ""
                         /\ Len(votes[i].options) \in 1..10)
    /\ [][\/ nextVoteId' = nextVoteId
          \/ /\ votes'[nextVoteId].isActive
             /\ votes'[nextVoteId].deadline > now']_vars

\* Both ends of the accepted range are stored: a poll with one option and a
\* poll with ten.
C10_Witness ==
    \E i, j \in VoteIds :
        /\ Active(i)
        /\ Active(j)
        /\ Len(votes[i].options) = 1
        /\ Len(votes[j].options) = 10

\* ------------------------------------------------------------------------
\* C11: fail-fast, all-or-nothing.  Every rejected createVote, castVote,
\* revealVoteResults or endVoteEarly leaves nextVoteId and every field of
\* every poll (hasVoted and the stored payloads included) exactly as they
\* were, and emits no notification.
\* ------------------------------------------------------------------------
C11_RejectedCallsChangeNothing ==
    [][\/ NoEffect
       \/ /\ \A t \in Titles, o \in OptionInputs, dl \in DeadlineInputs :
                \/ createVoteError(t, o, dl) = "ok"
                \/ \A s \in Creators, d \in Descriptions :
                      ~createVote(s, t, d, o, dl)
          /\ \A s \in Addr, i \in VoteIds :
                /\ \/ castVoteError(s, i) = "ok"
                   \/ \A p \in Payloads : ~castVote(s, i, p)
                /\ \A c \in CountInputs :
                      \/ revealVoteResultsError(s, i, c) = "ok"
                      \/ ~revealVoteResults(s, i, c)
                /\ \/ endVoteEarlyError(s, i) = "ok"
                   \/ ~endVoteEarly(s, i)]_vars

\* A poll holds one stored payload and a call has just been rejected: two
\* calls succeeded so far (the creation and the vote) and the last step
\* emitted nothing.
C11_Witness ==
    /\ steps = 2
    /\ nextVoteId = 1
    /\ votes[0].totalVoters = 1
    /\ \E s \in Addr : votes[0].encryptedVotes[s] # << >>
    /\ events = << >>

\* ------------------------------------------------------------------------
\* C12: choice decoding.  The option index a successful castVote tallies is
\* the payload's big-endian 16-bit value when the payload is exactly two
\* bytes long and that value is below options.length, and 0 for every other
\* payload (empty, shorter, longer, out of range); no castVote is rejected
\* because of its payload.
\* ------------------------------------------------------------------------
\* Payloads of every length from 0 to 4 bytes, in and out of range.
DecodePayloads ==
    {<< >>, <<1>>, <<0, 1>>, <<0, 9>>, <<0, 10>>, <<1, 0>>, <<0, 0, 0, 1>>}

DecodeOptionInputs == {OptionList(n) : n \in {2, MAX_OPTIONS}}

\* Polls of 2 and 10 options are created and voted on with DecodePayloads.
NextDecode ==
    \/ \E o \in DecodeOptionInputs :
          createVote("deployer", "Poll", "about", o, now + 1) /\ UNCHANGED browserVars
    \/ \E s \in Addr, i \in CalledIds, p \in DecodePayloads :
          castVote(s, i, p) /\ UNCHANGED browserVars

SpecDecode == Init /\ [][NextDecode]_vars

\* The index the claim assigns to payload p on a poll of n options.
ClaimedIndex(p, n) ==
    IF Len(p) = 2 /\ p[1] * 256 + p[2] < n THEN p[1] * 256 + p[2] ELSE 0

C12_ChoiceDecoding ==
    /\ \A i \in VoteIds :
          Active(i) =>
              LET n == Len(votes[i].options)
              IN  \A k \in 1..n :
                      votes[i].revealedCounts[k] =
                          Cardinality({s \in Addr :
                              /\ votes[i].hasVoted[s]
                              /\ ClaimedIndex(votes[i].encryptedVotes[s], n)
                                     = k - 1})
    /\ \A e \in {events[x] : x \in DOMAIN events} :
          e.name = "VoteCast" =>
              e.choiceIndex =
                  ClaimedIndex(votes[e.voteId].encryptedVotes[e.voter],
                               Len(votes[e.voteId].options))
    /\ \A s \in Addr, i \in VoteIds, p \in DecodePayloads :
          (castVoteError(s, i) = "ok" /\ steps < MaxSteps)
              => ENABLED castVote(s, i, p)

\* A ten-option poll has tallied an in-range payload at its own index, and
\* an out-of-range and an over-long payload at index 0.
C12_Witness ==
    \E i \in VoteIds :
        /\ Len(votes[i].options) = MAX_OPTIONS
        /\ votes[i].revealedCounts[10] = 1
        /\ votes[i].revealedCounts[1] = 2
        /\ \E s, t \in Addr :
              /\ votes[i].encryptedVotes[s] = <<0, 10>>
              /\ votes[i].encryptedVotes[t] = <<0, 0, 0, 1>>

\* ------------------------------------------------------------------------
\* C13: results are revealed only after the voting deadline.  While the
\* current time is strictly before a poll's deadline, the poll's isRevealed
\* is false and getVoteResults returns no non-zero tally.
\* ------------------------------------------------------------------------
C13_RevealedOnlyAfterDeadline ==
    \A i \in VoteIds :
        (getVoteResultsError(i) = "ok" /\ now < votes[i].deadline)
            => /\ ~getVoteInfo(i).isRevealed
               /\ \A k \in DOMAIN getVoteResults(i) : getVoteResults(i)[k] = 0

\* ------------------------------------------------------------------------
\* C14: result immutability.  Once revealVoteResults has succeeded on a
\* poll, that poll's revealedCounts never changes again, whatever is called.
\* ------------------------------------------------------------------------
C14_ResultImmutability ==
    [][\/ votes' = votes
       \/ \A i \in VoteIds :
             voteRevealRequested[i]
                 => votes'[i].revealedCounts = votes[i].revealedCounts]_vars

\* A poll was created, expired and was revealed, and a later call on the
\* ledger was rejected.
C14_Witness ==
    /\ steps = 3
    /\ voteRevealRequested[0]
    /\ votes[0].revealedCounts = <<7>>
    /\ emitted.VoteRevealed[0] = 1
    /\ events = << >>

\* ------------------------------------------------------------------------
\* C15: tally shape.  Every created poll has as many revealedCounts entries
\* as options, in every reachable state (after creation, votes and a
\* reveal), and between 1 and 10 options.
\* ------------------------------------------------------------------------
C15_TallyShape ==
    \A i \in VoteIds :
        Active(i) =>
            /\ Len(votes[i].revealedCounts) = Len(votes[i].options)
            /\ Len(votes[i].options) >= 1
            /\ Len(votes[i].options) <= MAX_OPTIONS

\* A ten-option poll whose counts were replaced by a reveal.
C15_Witness ==
    \E i \in VoteIds :
        /\ voteRevealRequested[i]
        /\ Len(votes[i].options) = MAX_OPTIONS
        /\ votes[i].revealedCounts[MAX_OPTIONS] = MAX_OPTIONS

\* ------------------------------------------------------------------------
\* C16: immutable metadata.  The title, description, options and creator of
\* a created poll are the ones given at creation: no later createVote,
\* castVote, revealVoteResults or endVoteEarly changes any of them.
\* ------------------------------------------------------------------------
C16_ImmutableMetadata ==
    [][\/ votes' = votes
       \/ \A i \in VoteIds :
             Active(i) =>
                 /\ votes'[i].title = votes[i].title
                 /\ votes'[i].description = votes[i].description
                 /\ votes'[i].options = votes[i].options
                 /\ votes'[i].creator = votes[i].creator]_vars

\* Poll 0 was created by alice, voted on and ended early, and a second poll
\* was created afterwards; poll 0 still carries alice's metadata.
C16_Witness ==
    /\ nextVoteId = 2
    /\ votes[0].creator = "alice"
    /\ votes[0].title = "Poll"
    /\ Len(votes[0].options) = MAX_OPTIONS
    /\ votes[0].totalVoters = 1
    /\ votes[0].deadline = now
    /\ votes[1].creator = "deployer"
    /\ votes[1].deadline > now

\* ------------------------------------------------------------------------
\* C17: deadline mutability.  The deadline of a created poll is changed by
\* no operation other than a successful endVoteEarly on that poll, and a
\* successful endVoteEarly sets the deadline to exactly the current time and
\* changes nothing else (no other field, no other poll, no notification).
\* ------------------------------------------------------------------------
C17_DeadlineOnlyByEndVoteEarly ==
    [][\/ steps' = steps
       \/ \A i \in VoteIds :
             /\ (Active(i) /\ votes'[i].deadline # votes[i].deadline)
                   => \E s \in Addr :
                         /\ endVoteEarlyError(s, i) = "ok"
                         /\ endVoteEarly(s, i)
             /\ \A s \in Addr :
                   (endVoteEarlyError(s, i) = "ok" /\ endVoteEarly(s, i))
                       => /\ votes' = [votes EXCEPT ![i].deadline = now]
                          /\ events' = << >>
                          /\ UNCHANGED <<owner, now, nextVoteId, voteRevealRequested,
                                         emitted>>]_vars

\* A poll that took a vote before its creator ended it: the deadline given
\* at creation was 2 and is now the time of the call.
C17_Witness ==
    /\ steps = 3
    /\ now = 1
    /\ nextVoteId = 1
    /\ votes[0].deadline = 1
    /\ votes[0].totalVoters = 1
    /\ votes[0].isRevealed
    /\ events = << >>

\* ------------------------------------------------------------------------
\* C18: endVoteEarly shrinks the voting window.  After every successful
\* endVoteEarly, at any current time, the deadline of the poll is less than
\* or equal to its value before the call: it is never moved later.
\* ------------------------------------------------------------------------
C18_DeadlineNeverLater ==
    [][\/ votes' = votes
       \/ \A i \in VoteIds, s \in Addr :
             (endVoteEarlyError(s, i) = "ok" /\ endVoteEarly(s, i))
                 => votes'[i].deadline <= votes[i].deadline]_vars

\* ------------------------------------------------------------------------
\* C19: existence equals active-ness.  isActive is true for exactly the ids
\* below nextVoteId and is never set back to false; castVote,
\* revealVoteResults, endVoteEarly, getVoteInfo and getVoteResults fail with
\* VoteNotFound exactly on the ids that were not allocated, for every caller
\* and argument.
\* ------------------------------------------------------------------------
C19_ExistenceIsActiveness ==
    /\ [](\A i \in VoteIds :
            /\ Active(i) <=> i < nextVoteId
            /\ getVoteInfoError(i) = "VoteNotFound" <=> i >= nextVoteId
            /\ getVoteResultsError(i) = "VoteNotFound" <=> i >= nextVoteId
            /\ \A s \in Addr :
                  /\ castVoteError(s, i) = "VoteNotFound" <=> i >= nextVoteId
                  /\ endVoteEarlyError(s, i) = "VoteNotFound"
                        <=> i >= nextVoteId
                  /\ \A c \in CountInputs :
                        revealVoteResultsError(s, i, c) = "VoteNotFound"
                            <=> i >= nextVoteId)
    /\ [][\/ votes' = votes
          \/ \A i \in VoteIds : Active(i) => votes'[i].isActive]_vars

\* Poll 0 was ended early and revealed and still exists; id 1 was never
\* allocated and is not found.
C19_Witness ==
    /\ nextVoteId = 1
    /\ votes[0].deadline = 1
    /\ voteRevealRequested[0]
    /\ getVoteInfoError(0) = "ok"
    /\ getVoteResultsError(0) = "ok"
    /\ getVoteInfoError(1) = "VoteNotFound"
    /\ \A s \in Addr : castVoteError(s, 1) = "VoteNotFound"

\* ------------------------------------------------------------------------
\* C20: cross-poll independence.  Every castVote, revealVoteResults and
\* endVoteEarly on poll i leaves every field of every other poll unchanged;
\* createVote leaves every existing poll unchanged; and a principal that
\* voted on one poll can still vote on every other open poll.
\* ------------------------------------------------------------------------
OthersUnchanged(i) ==
    \A j \in VoteIds \ {i} :
        /\ votes'[j] = votes[j]
        /\ voteRevealRequested'[j] = voteRevealRequested[j]

C20_CrossPollIndependence ==
    /\ [](\A j \in VoteIds, s \in Addr :
            (Active(j) /\ now < votes[j].deadline /\ ~votes[j].hasVoted[s])
                => castVoteError(s, j) = "ok")
    /\ [][\/ votes' = votes /\ voteRevealRequested' = voteRevealRequested
          \/ /\ \A i \in VoteIds :
                   \/ OthersUnchanged(i)
                   \/ \A s \in Addr :
                         /\ \A p \in Payloads : ~castVote(s, i, p)
                         /\ \A c \in CountInputs : ~revealVoteResults(s, i, c)
                         /\ ~endVoteEarly(s, i)
             /\ \/ nextVoteId' = nextVoteId
                \/ \A j \in VoteIds :
                      Active(j) => /\ votes'[j] = votes[j]
                                   /\ voteRevealRequested'[j]
                                          = voteRevealRequested[j]]_vars

\* One principal has voted on two polls.
C20_Witness ==
    \E s \in Addr :
        /\ votes[0].hasVoted[s]
        /\ votes[1].hasVoted[s]
        /\ emitted.VoteCast[0][s] = 1
        /\ emitted.VoteCast[1][s] = 1

\* ------------------------------------------------------------------------
\* C21: voter count.  For every poll, in every reachable state, totalVoters
\* is the number of principals whose hasVoted is true for that poll;
\* totalVoters never decreases and a hasVoted entry that is true stays true.
\* ------------------------------------------------------------------------
C21_TotalVotersCountsHasVoted ==
    /\ [](\A i \in VoteIds :
            votes[i].totalVoters =
                Cardinality({a \in Addr : hasAddressVoted(i, a)}))
    /\ [][\/ votes' = votes
          \/ \A i \in VoteIds :
                /\ votes'[i].totalVoters >= votes[i].totalVoters
                /\ \A a \in Addr :
                      hasAddressVoted(i, a) => votes'[i].hasVoted[a]]_vars

\* Every principal has voted on poll 0, which counts three voters.
C21_Witness ==
    /\ votes[0].totalVoters = 3
    /\ \A a \in Addr : hasAddressVoted(0, a)
    /\ getTotalVotes = 1

\* ------------------------------------------------------------------------
\* C22: the reveal stores what it is given.  revealVoteResults called by the
\* creator or the owner, at or after the deadline, on a poll not yet
\* revealed, with as many counts as options, succeeds whatever the count
\* values are; afterwards revealedCounts is exactly the supplied counts and
\* isRevealed is true, and totalVoters, hasVoted, deadline and every other
\* field are unchanged.
\* ------------------------------------------------------------------------
C22_RevealStoresSuppliedCounts ==
    /\ [](\A s \in Addr, i \in VoteIds, c \in CountInputs :
            (/\ Active(i)
             /\ Authorized(s, i)
             /\ now >= votes[i].deadline
             /\ ~votes[i].isRevealed
             /\ Len(c) = Len(votes[i].options))
                => revealVoteResultsError(s, i, c) = "ok")
    /\ [][\/ votes' = votes
          \/ \A s \in Addr, i \in VoteIds, c \in CountInputs :
                \/ revealVoteResultsError(s, i, c) # "ok"
                \/ ~revealVoteResults(s, i, c)
                \/ /\ votes' = [votes EXCEPT ![i].revealedCounts = c,
                                             ![i].isRevealed = TRUE]
                   /\ getVoteResults(i)' = c]_vars

\* A poll nobody voted on has just been revealed with the count 7.
C22_Witness ==
    /\ events = <<VoteRevealed(0, <<7>>)>>
    /\ getVoteResults(0) = <<7>>
    /\ votes[0].isRevealed
    /\ votes[0].totalVoters = 0

\* ------------------------------------------------------------------------
\* C23: effect of a successful castVote.  hasVoted of the caller becomes
\* true, the raw payload is recorded for the caller, totalVoters grows by
\* exactly 1, exactly one entry of revealedCounts (the resolved choice
\* index) grows by exactly 1 while every other entry is unchanged, and
\* isRevealed is true; the resolved index is within [0, options.length).
\* ------------------------------------------------------------------------
C23_CastVoteEffect ==
    [][\/ votes' = votes
       \/ \A s \in Addr, i \in VoteIds, p \in Payloads :
             \/ castVoteError(s, i) # "ok"
             \/ ~castVote(s, i, p)
             \/ LET n == Len(votes[i].options)
                    c == ChoiceIndex(p, n)
                IN  /\ c >= 0 /\ c < n
                    /\ ~hasAddressVoted(i, s)
                    /\ votes'[i].hasVoted[s]
                    /\ votes'[i].encryptedVotes[s] = p
                    /\ votes'[i].totalVoters = votes[i].totalVoters + 1
                    /\ votes'[i].isRevealed
                    /\ DOMAIN votes'[i].revealedCounts = 1..n
                    /\ \A k \in 1..n :
                          votes'[i].revealedCounts[k] =
                              votes[i].revealedCounts[k]
                                  + (IF k = c + 1 THEN 1 ELSE 0)]_vars

\* The second vote on a ten-option poll has just been counted on option 1;
\* the first one, a three-byte payload, was counted on option 0.
C23_Witness ==
    \E i \in VoteIds, s \in Addr :
        /\ Len(votes[i].options) = MAX_OPTIONS
        /\ events # << >>
        /\ events[1].name = "VoteCast"
        /\ events[1].voteId = i
        /\ events[1].voter = s
        /\ votes[i].encryptedVotes[s] = <<0, 1>>
        /\ votes[i].revealedCounts[2] = 1
        /\ votes[i].revealedCounts[1] = 1
        /\ votes[i].totalVoters = 2

\* ------------------------------------------------------------------------
\* C24: notifications.  A successful createVote emits exactly one
\* VoteCreated(id, creator, title, deadline), a successful castVote exactly
\* one VoteCast(id, voter, resolved index, options[index]), a successful
\* revealVoteResults exactly one VoteRevealed(id, counts); no call emits
\* more than one notification and endVoteEarly emits none, so the number of
\* VoteCast events of a poll equals its totalVoters.
\* ------------------------------------------------------------------------
RECURSIVE SumOver(_, _)
SumOver(f, S) ==
    IF S = {} THEN 0
    ELSE LET a == CHOOSE x \in S : TRUE IN f[a] + SumOver(f, S \ {a})

\* The number of VoteCast events emitted so far for poll i.
CastEvents(i) == SumOver(emitted.VoteCast[i], Addr)

C24_Notifications ==
    /\ [](/\ Len(events) <= 1
          /\ \A i \in VoteIds :
                /\ CastEvents(i) = votes[i].totalVoters
                /\ emitted.VoteCreated[i] = IF i < nextVoteId THEN 1 ELSE 0
                /\ emitted.VoteRevealed[i] =
                       IF voteRevealRequested[i] THEN 1 ELSE 0)
    /\ [][\/ steps' = steps
          \/ /\ \A s \in Creators, t \in Titles, d \in Descriptions,
                   o \in OptionInputs, dl \in DeadlineInputs :
                   \/ createVoteError(t, o, dl) # "ok"
                   \/ ~createVote(s, t, d, o, dl)
                   \/ events' = <<VoteCreated(nextVoteId, s, t, dl)>>
             /\ \A s \in Addr, i \in VoteIds :
                   /\ \A p \in Payloads :
                         \/ castVoteError(s, i) # "ok"
                         \/ ~castVote(s, i, p)
                         \/ LET c == ClaimedIndex(p, Len(votes[i].options))
                            IN  events' =
                                  <<VoteCast(i, s, c, votes[i].options[c + 1])>>
                   /\ \A c \in CountInputs :
                         \/ revealVoteResultsError(s, i, c) # "ok"
                         \/ ~revealVoteResults(s, i, c)
                         \/ events' = <<VoteRevealed(i, c)>>
                   /\ \/ endVoteEarlyError(s, i) # "ok"
                      \/ ~endVoteEarly(s, i)
                      \/ events' = << >> /\ emitted' = emitted]_vars

\* A poll was created, took two votes and was ended early by the last call,
\* which emitted nothing: two VoteCast events are on the log.
C24_Witness ==
    /\ steps = 4
    /\ events = << >>
    /\ votes[0].totalVoters = 2
    /\ votes[0].deadline = now
    /\ CastEvents(0) = 2
    /\ emitted.VoteCreated[0] = 1

\* ------------------------------------------------------------------------
\* C25: order of the castVote checks.  The error reported is the first
\* violated precondition in the order VoteNotFound, VoteExpired,
\* AlreadyVoted: an unallocated id yields VoteNotFound whatever the time or
\* the caller, and an expired existing poll yields VoteExpired whether or
\* not the caller has voted.
\* ------------------------------------------------------------------------
C25_CastVoteErrorOrder ==
    \A s \in Addr, i \in VoteIds :
        castVoteError(s, i) =
            IF i >= getTotalVotes THEN "VoteNotFound"
            ELSE IF isVoteExpired(i) THEN "VoteExpired"
            ELSE IF hasAddressVoted(i, s) THEN "AlreadyVoted"
            ELSE "ok"

\* Poll 0 has expired: a principal that voted on it and one that did not
\* both get VoteExpired, and the unallocated id 1 gets VoteNotFound.
C25_Witness ==
    /\ getTotalVotes = 1
    /\ isVoteExpired(0)
    /\ \E s, t \in Addr :
          /\ hasAddressVoted(0, s)
          /\ ~hasAddressVoted(0, t)
          /\ castVoteError(s, 0) = "VoteExpired"
          /\ castVoteError(t, 0) = "VoteExpired"
          /\ castVoteError(s, 1) = "VoteNotFound"

\* ------------------------------------------------------------------------
\* C26: order of the revealVoteResults checks.  The error reported is the
\* first violated precondition in the order VoteNotFound, NotVoteCreator,
\* VoteNotExpired, VoteAlreadyRevealed, InvalidOption: an unauthorized
\* caller gets NotVoteCreator whatever the time, the reveal status and the
\* length of the counts, and a wrong length yields InvalidOption only when
\* every earlier check passes.
\* ------------------------------------------------------------------------
C26_RevealErrorOrder ==
    \A s \in Addr, i \in VoteIds, c \in CountInputs :
        revealVoteResultsError(s, i, c) =
            IF i >= getTotalVotes THEN "VoteNotFound"
            ELSE IF ~Authorized(s, i) THEN "NotVoteCreator"
            ELSE IF ~isVoteExpired(i) THEN "VoteNotExpired"
            ELSE IF getVoteInfo(i).isRevealed THEN "VoteAlreadyRevealed"
            ELSE IF Len(c) # Len(getVoteInfo(i).options) THEN "InvalidOption"
            ELSE "ok"

\* Poll 0 is expired and already revealed: with counts of the wrong length
\* an unauthorized caller gets NotVoteCreator and the creator gets
\* VoteAlreadyRevealed; on the unrevealed expired poll 1 the same counts
\* give the owner InvalidOption.
C26_Witness ==
    /\ getTotalVotes = 2
    /\ isVoteExpired(0) /\ votes[0].isRevealed /\ Len(votes[0].options) = 1
    /\ isVoteExpired(1) /\ ~votes[1].isRevealed /\ Len(votes[1].options) = 1
    /\ votes[0].creator = "alice"
    /\ revealVoteResultsError("bob", 0, <<3, 5>>) = "NotVoteCreator"
    /\ revealVoteResultsError("alice", 0, <<3, 5>>) = "VoteAlreadyRevealed"
    /\ revealVoteResultsError(owner, 1, <<3, 5>>) = "InvalidOption"

\* The routes VoteDetail is opened on, the creators and the options of the
\* polls created for it (the CreateVote page creates with the account of
\* the wallet), and the radio items chosen on it (of the items of a poll
\* the first two and the last one are kept).
PageIds == {0}

PageCreators == WalletAccounts

PageOptions == DecodeOptionInputs

Selections(voteId) == RadioValues(voteId) \cap {"0", "1", "9"}

\* A click on the page or an event of the wallet: like the transactions and
\* the clock ticks it takes one of the MaxSteps steps of a run, and leaves
\* the contract alone.  The awaits that settle afterwards are not counted.
PageEvent ==
    /\ steps < MaxSteps
    /\ steps' = steps + 1
    /\ UNCHANGED <<owner, now, nextVoteId, votes, voteRevealRequested, events,
                   emitted, returned>>

\* The page and the contract: the polls of PageIds are created, the block time advances
\* and broadcast transactions are mined while the user opens and leaves the
\* voting page, connects the wallet and submits votes, and the wallet emits
\* its events.  Every await is a step of its own; effects, clicks, wallet
\* events and the reload are tasks, which start when no microtask is
\* pending.
NextFrontEnd ==
    \/ \E c \in PageCreators, o \in PageOptions :
          /\ nextVoteId \in PageIds
          /\ createVote(c, "Poll", "about", o, now + 1)
          /\ UNCHANGED browserVars
    \/ Tick /\ UNCHANGED browserVars
    \/ \E tx \in mempool : mine(tx)
    \/ \E id \in PageIds : Turn /\ mount(id) /\ UNCHANGED ledgerVars
    \/ Turn /\ unmount /\ PageEvent
    \/ Turn /\ chainChanged /\ PageEvent
    \/ \E accounts \in {{}, {"bob"}} :
          Turn /\ accountsChanged(accounts) /\ PageEvent
    \/ Turn /\ reload /\ UNCHANGED ledgerVars
    \/ Turn /\ connectWallet /\ PageEvent
    \/ Turn /\ disconnectWallet /\ PageEvent
    \/ \E value \in Selections(view.id) :
          Turn /\ setSelectedOption(value) /\ UNCHANGED ledgerVars
    \/ Turn /\ submitVote /\ PageEvent
    \/ Turn /\ endVote /\ PageEvent
    \/ \E n \in Running : Turn /\ handleEndVoteDone(n) /\ UNCHANGED ledgerVars
    \/ \E k \in DOMAIN calls : importDone(k) /\ UNCHANGED ledgerVars
    \/ \E k \in DOMAIN calls : initSDKDone(k) /\ UNCHANGED ledgerVars
    \/ \E k \in DOMAIN calls : createInstanceDone(k) /\ UNCHANGED ledgerVars
    \/ \E k \in DOMAIN calls : initializeFailed(k) /\ UNCHANGED ledgerVars
    \/ mountResumed /\ UNCHANGED ledgerVars
    \/ refreshResumed /\ UNCHANGED ledgerVars
    \/ \E n \in Running : initializeFHEAwaited(n) /\ UNCHANGED ledgerVars
    \/ \E n \in Running : createEncryptedInputDone(n) /\ UNCHANGED ledgerVars
    \/ \E n \in Running : encryptDone(n) /\ UNCHANGED ledgerVars
    \/ \E n \in Running : txBroadcast(n) /\ UNCHANGED ledgerVars
    \/ \E n \in Running : castVoteSent(n) /\ UNCHANGED ledgerVars
    \/ \E n \in Running : waitDone(n) /\ UNCHANGED ledgerVars
    \/ \E n \in Running : handleVoteRejected(n) /\ UNCHANGED ledgerVars
    \/ \E n \in DOMAIN connects : ethAccountsDone(n) /\ UNCHANGED ledgerVars
    \/ \E n \in DOMAIN connects : ethAccountsFailed(n) /\ UNCHANGED ledgerVars
    \/ \E n \in DOMAIN connects : requestAccountsDone(n) /\ UNCHANGED ledgerVars
    \/ \E n \in DOMAIN connects : getNetworkDone(n) /\ UNCHANGED ledgerVars
    \/ \E n \in DOMAIN connects : getSignerDone(n) /\ UNCHANGED ledgerVars
    \/ \E n \in DOMAIN connects : connectFailed(n) /\ UNCHANGED ledgerVars
    \/ contractUpdated /\ UNCHANGED ledgerVars
    \/ contractUpdateFailed /\ UNCHANGED ledgerVars
    \/ \E n \in DOMAIN loads : getVoteInfoDone(n) /\ UNCHANGED ledgerVars
    \/ \E n \in DOMAIN loads : getVoteResultsDone(n) /\ UNCHANGED ledgerVars
    \/ \E n \in DOMAIN loads : hasAddressVotedDone(n) /\ UNCHANGED ledgerVars
    \/ \E n \in DOMAIN loads : loadFailed(n) /\ UNCHANGED ledgerVars

SpecFrontEnd == InitBrowser /\ [][NextFrontEnd]_vars

\* ------------------------------------------------------------------------
\* C27: the payload the front end submits is the 2-byte encoding of the
\* selected option index, so a vote submitted through handleVote for the
\* option index x < options.length increments revealedCounts[x].
\* ------------------------------------------------------------------------
C27_FrontEndVoteCountsSelection ==
    [][\A tx \in mempool :
          \/ ~mine(tx)
          \/ votes' = votes
          \/ tx.optionIndex >= Len(votes[tx.voteId].options)
          \/ /\ votes'[tx.voteId].encryptedVotes[tx.sender]
                    = <<tx.optionIndex \div 256, tx.optionIndex % 256>>
             /\ votes'[tx.voteId].revealedCounts[tx.optionIndex + 1] =
                    votes[tx.voteId].revealedCounts[tx.optionIndex + 1] + 1]_vars

\* ------------------------------------------------------------------------
\* C28: initializeFHE is a singleton.  Over any interleaving of concurrent
\* initializeFHE calls with no resetFheInstance in between, the SDK instance
\* is created at most once and every caller receives the same instance; and
\* after resetFheInstance no initialization that was already in flight
\* re-populates the global instance.
\* ------------------------------------------------------------------------
C28_InitializeFHESingleton ==
    /\ [](\A k, j \in DOMAIN calls :
             (/\ ~calls[k].stale /\ ~calls[j].stale
              /\ calls[k].pc \in {"resolved", "done"}
              /\ calls[j].pc \in {"resolved", "done"})
                 => /\ calls[k].got = calls[j].got
                    /\ (calls[k].created /\ calls[j].created) => k = j)
    /\ [][\A k \in DOMAIN calls :
             (calls[k].stale /\ createInstanceDone(k))
                 => fheInstance' = fheInstance]_vars

\* ------------------------------------------------------------------------
\* C29: because the first successful castVote sets isRevealed,
\* revealVoteResults can succeed only on a poll with totalVoters == 0: on a
\* poll that has received a vote every revealVoteResults call fails, so
\* caller-supplied counts never overwrite a tally that contains cast votes.
\* ------------------------------------------------------------------------
C29_RevealOnlyWithoutVotes ==
    \A i \in VoteIds :
        /\ votes[i].totalVoters >= 1
              => /\ getVoteInfo(i).isRevealed
                 /\ ~voteRevealRequested[i]
                 /\ emitted.VoteRevealed[i] = 0
                 /\ \A s \in Addr, c \in CountInputs :
                       revealVoteResultsError(s, i, c) # "ok"
        /\ voteRevealRequested[i] => votes[i].totalVoters = 0

\* A one-option poll took a vote and has expired: its creator's reveal with
\* one count is refused as already revealed.
C29_Witness ==
    /\ votes[0].totalVoters = 1
    /\ isVoteExpired(0)
    /\ Len(votes[0].options) = 1
    /\ revealVoteResultsError(votes[0].creator, 0, <<7>>)
           = "VoteAlreadyRevealed"

\* ------------------------------------------------------------------------
\* C30: expiry is permanent under a monotonic clock.  Once the current time
\* has reached the deadline of a poll it stays so in every later state,
\* across any endVoteEarly (also one made after expiry or after a reveal):
\* isVoteExpired stays true and no castVote on that poll succeeds again.
\* ------------------------------------------------------------------------
C30_ExpiryIsPermanent ==
    [][\/ steps' = steps
       \/ \A i \in VoteIds :
             (Active(i) /\ isVoteExpired(i))
                 => /\ isVoteExpired(i)'
                    /\ \A s \in Addr : castVoteError(s, i)' = "VoteExpired"
                    /\ votes'[i].totalVoters = votes[i].totalVoters
                    /\ emitted'.VoteCast[i] = emitted.VoteCast[i]]_vars

\* Poll 0 expired at time 2, was revealed, and endVoteEarly was called on it
\* at time 2 as well: it is still expired.
C30_Witness ==
    /\ steps = 4
    /\ now = 2
    /\ nextVoteId = 1
    /\ voteRevealRequested[0]
    /\ votes[0].deadline = 2
    /\ events = << >>
    /\ isVoteExpired(0)

====
